---- MODULE Spec2Model ----
(***************************************************************************)
(* Scenario Execution Engine of the HEAS web playground.                   *)
(*                                                                         *)
(*  - PlaygroundRuntime (docs/js/runtime.js): the dispatcher, its pending  *)
(*    table and its worker instance.                                       *)
(*  - runtime.worker.js (held in docs/js/errors.js, lines 69-133): the     *)
(*    backend worker, its inbox and the messages it posts back.            *)
(*  - playground.js (src/unnamed/part_001): runSimulation, the cancel      *)
(*    handler, loadPyodideAndCode and the edits of the model state.        *)
(*                                                                         *)
(* One action is one task of the browser's event loop: an event handler    *)
(* together with every promise continuation (microtask) it releases, up    *)
(* to the next await that waits for another task.                          *)
(***************************************************************************)
EXTENDS Integers, Sequences, FiniteSets, TLC

\* ------------------------------------------------------------------ bounds
\* Requests the dispatcher may issue (caps requestSeq).
MaxReq == 4
\* Worker instances that may be constructed (caps `new Worker`).
MaxWorkers == 2
\* Worker error events the environment may raise.
MaxErrors == 1
\* Worker error events where a worker may fail again.
MaxCrashes == 2
\* Edits the user may make to the model and to the run controls.
MaxEdits == 1

\* ------------------------------------------------------------- error codes
LOAD_FAILED == "runtime.load_failed"
CANCELLED == "runtime.cancelled"
LIMIT_EXCEEDED == "runtime.limit_exceeded"
FAILED == "runtime.failed"
BAD_RESULT_SHAPE == "runtime.bad_result_shape"
LAYERS_INVALID == "validation.layers_invalid"
LAYER_EMPTY == "validation.layer_empty"

\* createError(code, message, hints, details): the structured error.
createError(code, message) == [code |-> code, message |-> message]

\* A thrown value that is no structured error (an Error instance, a string).
RawError(text) == [raw |-> text]

\* normalizeError: keeps a structured error's own code and message, wraps
\* anything else in the fallback.
normalizeError(err, fallbackCode, fallbackMessage) ==
  IF "code" \in DOMAIN err /\ "message" \in DOMAIN err
    THEN createError(err.code, err.message)
    ELSE createError(fallbackCode, fallbackMessage)

\* ---------------------------------------------------------- backend results
\* What run_sim may hand back, as far as validateRunResultShape looks at it:
\* obj: the result is an object; arr: result.episodes is an array; eps: per
\* episode whether per_step is an array (ps) and episode an object (ep).
GoodResult == [obj |-> TRUE, arr |-> TRUE, eps |-> << [ps |-> TRUE, ep |-> TRUE] >>]
EmptyResult == [obj |-> TRUE, arr |-> TRUE, eps |-> << >>]
BadResult == [obj |-> TRUE, arr |-> TRUE, eps |-> << [ps |-> FALSE, ep |-> TRUE] >>]
NoResult == [obj |-> FALSE, arr |-> FALSE, eps |-> << >>]
NoEpisodes == [obj |-> TRUE, arr |-> FALSE, eps |-> << >>]
BackendResults == {GoodResult, EmptyResult, BadResult, NoEpisodes}

\* validateRunResultShape that looks only at each element's episode object.
validateEpisodeOnly(result) ==
  /\ result.obj
  /\ result.arr
  /\ \A k \in 1..Len(result.eps) : result.eps[k].ep

validateRunResultShape(result) ==
  /\ result.obj
  /\ result.arr
  /\ \A k \in 1..Len(result.eps) : result.eps[k].ps /\ result.eps[k].ep

\* ------------------------------------------------------------------- state
VARIABLES
  rt,      \* PlaygroundRuntime: worker, requestSeq, pending, ready
  req,     \* every call of request(), by identifier: its promise and caller
  wk,      \* the worker instances constructed so far
  nerr,    \* worker error events raised so far
  nedit,   \* edits of the model and of the run controls made so far
  app,     \* playground.js globals
  runs,    \* the invocations of runSimulation
  state,   \* playground.js `state`: the model being edited
  now,     \* Date.now()
  hist,    \* history: terminate() has been called (terminated); an init()
           \* has returned its value since the last such call (initOk)
           \* and the worker whose error event came last (erred)
  arg,     \* the argument of the function under study, where a specification
           \* studies one function on its own
  ret      \* what that function returned

vars == << rt, req, wk, nerr, nedit, app, runs, state, now, hist, arg, ret >>

\* this.worker = null
NullWorker == 0

\* constructor({ indexURL })
NewRuntime == [worker |-> NullWorker, requestSeq |-> 0, pending |-> {}, ready |-> FALSE]

\* new Worker("./js/runtime.worker.js"): pyodide = null, ready = false,
\* initError = null; nothing received, nothing in progress, nothing posted.
NewWorker ==
  [status |-> "live", ready |-> FALSE, initError |-> FALSE,
   inbox |-> << >>, busy |-> {}, outbox |-> << >>]

\* worker.terminate(): the worker stops, and the messages it has posted that
\* are not yet delivered are dropped with it.
TerminatedWorker ==
  [status |-> "terminated", ready |-> FALSE, initError |-> FALSE,
   inbox |-> << >>, busy |-> {}, outbox |-> << >>]

\* The promise made by request(): not settled, resolve and reject not called.
NoValue == [ok |-> FALSE, type |-> "", payload |-> NoResult, err |-> RawError("")]
NoOutcome == [done |-> FALSE, ok |-> FALSE, payload |-> NoResult, err |-> RawError("")]

\* The whole program state as one value, so that a handler and the
\* continuations it releases compose as functions.
World ==
  [rt |-> rt, req |-> req, wk |-> wk, nerr |-> nerr, app |-> app,
   runs |-> runs, state |-> state, now |-> now, hist |-> hist, ovf |-> FALSE]

Commit(W) ==
  /\ ~W.ovf
  /\ rt' = W.rt
  /\ req' = W.req
  /\ wk' = W.wk
  /\ nerr' = W.nerr
  /\ UNCHANGED nedit
  /\ app' = W.app
  /\ runs' = W.runs
  /\ state' = W.state
  /\ now' = W.now
  /\ hist' = W.hist
  /\ UNCHANGED << arg, ret >>

\* ---------------------------------------------------------------- worker
\* self.postMessage(msg) inside worker w.
post(W, w, msg) == [W EXCEPT !.wk[w].outbox = Append(@, msg)]

ErrorMessage(id, message) ==
  [type |-> "error", requestId |-> id, payload |-> NoResult, message |-> message]

OkMessage(type, id, payload) ==
  [type |-> type, requestId |-> id, payload |-> payload, message |-> ""]

\* self.onmessage whose runSimulation lacks the `if (!ready) throw`.
workerReceiveUnguarded(W, w) ==
  LET m == Head(W.wk[w].inbox)
      W1 == [W EXCEPT !.wk[w].inbox = Tail(@)]
  IN  IF m.type = "init"
        THEN IF W1.wk[w].ready THEN post(W1, w, OkMessage("init_ok", m.requestId, NoResult))
             ELSE IF W1.wk[w].initError THEN post(W1, w, ErrorMessage(m.requestId, "init-error"))
             ELSE [W1 EXCEPT !.wk[w].busy = @ \cup {m}]
      ELSE [W1 EXCEPT !.wk[w].busy = @ \cup {m}]

\* self.onmessage up to its first await that waits for another task.
\*   init: initRuntime returns at once when ready, throws at once when
\*         initError is set, otherwise starts loading;
\*   run:  runSimulation throws "runtime-not-ready" at once when not ready,
\*         otherwise starts run_sim.
workerReceive(W, w) ==
  LET m == Head(W.wk[w].inbox)
      W1 == [W EXCEPT !.wk[w].inbox = Tail(@)]
  IN  IF m.type = "init"
        THEN IF W1.wk[w].ready THEN post(W1, w, OkMessage("init_ok", m.requestId, NoResult))
             ELSE IF W1.wk[w].initError THEN post(W1, w, ErrorMessage(m.requestId, "init-error"))
             ELSE [W1 EXCEPT !.wk[w].busy = @ \cup {m}]
      ELSE IF m.type = "run"
        THEN IF ~W1.wk[w].ready THEN post(W1, w, ErrorMessage(m.requestId, "runtime-not-ready"))
             ELSE [W1 EXCEPT !.wk[w].busy = @ \cup {m}]
      ELSE post(W1, w, ErrorMessage(m.requestId, "Unknown worker message type"))

\* The rest of self.onmessage for message m: the awaited work ends, well
\* (good) or by throwing, and the answer is posted.
workerComplete(W, w, m, good, result) ==
  LET W1 == [W EXCEPT !.wk[w].busy = @ \ {m}]
  IN  IF m.type = "init"
        THEN IF good
               THEN post([W1 EXCEPT !.wk[w].ready = TRUE], w, OkMessage("init_ok", m.requestId, NoResult))
               ELSE post([W1 EXCEPT !.wk[w].initError = TRUE], w, ErrorMessage(m.requestId, "load-error"))
        ELSE IF good
               THEN post(W1, w, OkMessage("run_ok", m.requestId, result))
               ELSE post(W1, w, ErrorMessage(m.requestId, "run-error"))

\* ------------------------------------------------------------ dispatcher
ensureWorker(W) ==
  IF W.rt.worker # NullWorker THEN W
  ELSE IF Len(W.wk) >= MaxWorkers THEN [W EXCEPT !.ovf = TRUE]
  ELSE [W EXCEPT !.wk = Append(@, NewWorker), !.rt.worker = Len(W.wk) + 1]

\* request(type, payload), called on behalf of `owner`. (gap notes that
\* terminate() has been called and no init() has returned its value since.)
request(W, type, payload, owner) ==
  LET W1 == ensureWorker(W)
      requestId == W1.rt.requestSeq + 1
  IN  IF W1.ovf \/ requestId > MaxReq THEN [W1 EXCEPT !.ovf = TRUE]
      ELSE [W1 EXCEPT
              !.rt.requestSeq = requestId,
              !.rt.pending = @ \cup {requestId},
              !.req = Append(@, [type |-> type, payload |-> payload, owner |-> owner,
                                 st |-> "pending", settles |-> 0,
                                 gap |-> W.hist.terminated /\ ~W.hist.initOk,
                                 val |-> NoValue, out |-> NoOutcome]),
              !.wk[W1.rt.worker].inbox =
                 Append(@, [type |-> type, requestId |-> requestId, payload |-> payload])]

\* p.resolve / p.reject of the promise of request id: the first call
\* settles it, a later call leaves it as it is.
settle(W, id, st, val) ==
  [W EXCEPT !.req[id] =
     IF @.st = "pending"
       THEN [@ EXCEPT !.st = st, !.val = val, !.settles = @ + 1]
       ELSE [@ EXCEPT !.settles = @ + 1]]

resolve(W, id, type, payload) ==
  settle(W, id, "resolved", [ok |-> TRUE, type |-> type, payload |-> payload, err |-> RawError("")])

reject(W, id, err) ==
  settle(W, id, "rejected", [ok |-> FALSE, type |-> "", payload |-> NoResult, err |-> err])

RECURSIVE rejectAll(_, _, _)
\* this.pending.forEach((entry) => entry.reject(err))
rejectAll(W, ids, err) ==
  IF ids = {} THEN W
  ELSE LET id == CHOOSE i \in ids : \A j \in ids : i <= j
       IN  rejectAll(reject(W, id, err), ids \ {id}, err)

\* worker.onmessage without `this.pending.delete(requestId)`.
onmessageKeepsEntry(W, msg) ==
  IF msg.requestId \notin W.rt.pending THEN W
  ELSE IF msg.type = "error"
    THEN reject(W, msg.requestId, createError(FAILED, msg.message))
    ELSE resolve(W, msg.requestId, msg.type, msg.payload)

\* worker.onmessage
onmessage(W, msg) ==
  IF msg.requestId \notin W.rt.pending THEN W
  ELSE LET W1 == [W EXCEPT !.rt.pending = @ \ {msg.requestId}]
       IN  IF msg.type = "error"
             THEN reject(W1, msg.requestId, createError(FAILED, msg.message))
             ELSE resolve(W1, msg.requestId, msg.type, msg.payload)

\* worker.onerror that lets go of the worker and of the pending table
\* without rejecting what is in it.
onerrorDropsPending(W) ==
  [W EXCEPT !.rt.pending = {}, !.rt.worker = NullWorker, !.rt.ready = FALSE]

\* worker.onerror
onerror(W) ==
  LET W1 == rejectAll(W, W.rt.pending, createError(FAILED, "Runtime worker crashed."))
  IN  [W1 EXCEPT !.rt.pending = {}, !.rt.worker = NullWorker, !.rt.ready = FALSE]

\* terminate() that also starts the request counter afresh.
terminateResetsSeq(W) ==
  LET W0 == IF W.rt.worker # NullWorker
              THEN [W EXCEPT !.wk[W.rt.worker] = TerminatedWorker]
              ELSE W
      W1 == [W0 EXCEPT !.rt.worker = NullWorker]
      W2 == rejectAll(W1, W1.rt.pending, createError(CANCELLED, "Run cancelled by user."))
  IN  [W2 EXCEPT !.rt.pending = {}, !.rt.ready = FALSE, !.rt.requestSeq = 0,
                 !.hist.terminated = TRUE, !.hist.initOk = FALSE]

\* terminate() that empties the pending table without rejecting what is
\* in it.
terminateDropsPending(W) ==
  LET W0 == IF W.rt.worker # NullWorker
              THEN [W EXCEPT !.wk[W.rt.worker] = TerminatedWorker]
              ELSE W
  IN  [W0 EXCEPT !.rt.worker = NullWorker, !.rt.pending = {}, !.rt.ready = FALSE,
                 !.hist.terminated = TRUE, !.hist.initOk = FALSE]

\* terminate()
terminate(W) ==
  LET W0 == IF W.rt.worker # NullWorker
              THEN [W EXCEPT !.wk[W.rt.worker] = TerminatedWorker]
              ELSE W
      W1 == [W0 EXCEPT !.rt.worker = NullWorker]
      W2 == rejectAll(W1, W1.rt.pending, createError(CANCELLED, "Run cancelled by user."))
  IN  [W2 EXCEPT !.rt.pending = {}, !.rt.ready = FALSE,
                 !.hist.terminated = TRUE, !.hist.initOk = FALSE]

Returned(payload) == [done |-> TRUE, ok |-> TRUE, payload |-> payload, err |-> RawError("")]
Threw(err) == [done |-> TRUE, ok |-> FALSE, payload |-> NoResult, err |-> err]

\* init() after its await: the continuation of the settled request id.
initSettled(W, id) ==
  LET v == W.req[id].val
      thrown == IF v.ok THEN createError(LOAD_FAILED, "Runtime failed to initialize.") ELSE v.err
  IN  IF v.ok /\ v.type = "init_ok"
        THEN [W EXCEPT !.rt.ready = TRUE, !.req[id].out = Returned(v.payload),
                       !.hist.initOk = TRUE]
        ELSE [W EXCEPT !.rt.ready = FALSE,
                       !.req[id].out = Threw(normalizeError(thrown, LOAD_FAILED, "Failed to load Pyodide runtime."))]

\* run(payload) after its await.
runSettled(W, id) ==
  LET v == W.req[id].val
      thrown == IF ~v.ok THEN v.err
                ELSE IF v.type # "run_ok"
                  THEN createError(FAILED, "Runtime returned an unexpected message type.")
                ELSE createError(BAD_RESULT_SHAPE, "Runtime returned an invalid result shape.")
  IN  IF v.ok /\ v.type = "run_ok" /\ validateRunResultShape(v.payload)
        THEN [W EXCEPT !.req[id].out = Returned(v.payload)]
        ELSE [W EXCEPT !.req[id].out = Threw(normalizeError(thrown, FAILED, "Simulation failed."))]

\* ------------------------------------------------------------ model state
\* Options a template gives a condition-kind categorical parameter.
MaxOpts == 2
\* RUN_LIMITS.maxScenarios (64 in state.js), scaled down with the templates.
maxScenarios == 2
\* RUN_LIMITS.maxRunMs (45000 in state.js), in ticks of the model's clock.
maxRunMs == 1
\* RUN_LIMITS.maxSteps (500 in state.js), scaled to the inputs the model offers.
maxSteps == 2
\* Invocations of runSimulation that pass its two entry guards.
MaxRuns == 2
\* The clock stops here.
MaxNow == maxRunMs + 1

\* buildComponent(layerIndex, componentIndex, template): the id is
\* L<layer>S<index>; `value` stands for the numeric parameters, `opts` is the
\* option count of the component's condition-kind categorical parameter
\* (0: the template declares none).
buildComponent(id, layerIndex, opts) ==
  [id |-> id, layerIndex |-> layerIndex, value |-> 0, opts |-> opts]

\* initSampleUsage1 and its siblings, cut down to two layers of one component.
Template(o1, o2) ==
  [layers |-> << << "L1S1" >>, << "L2S1" >> >>,
   components |-> << buildComponent("L1S1", 1, o1), buildComponent("L2S1", 2, o2) >>,
   steps |-> 1]

TemplateOpts == { << 0, 0 >>, << MaxOpts, 0 >>, << MaxOpts, MaxOpts >> }

\* state.components[componentId]; Object.values(state.components) is the
\* sequence itself (insertion order).
HasComponent(s, id) == \E k \in 1..Len(s.components) : s.components[k].id = id
Component(s, id) ==
  s.components[CHOOSE k \in 1..Len(s.components) : s.components[k].id = id]

removeComponent(s, componentId) ==
  IF ~HasComponent(s, componentId) THEN s
  ELSE LET layerIndex == Component(s, componentId).layerIndex
           notIt(x) == x # componentId
           notRec(c) == c.id # componentId
       IN  [s EXCEPT !.layers[layerIndex] = SelectSeq(@, notIt),
                     !.components = SelectSeq(@, notRec)]

\* (Array.prototype.filter is SelectSeq; so is the `delete` of a key of
\* state.components, which keeps the order of the other keys.)

\* The change handler of a parameter input of the grid.
setParam(s, componentId, v) ==
  [s EXCEPT !.components =
     [k \in 1..Len(s.components) |->
        IF s.components[k].id = componentId
          THEN [s.components[k] EXCEPT !.value = v]
          ELSE s.components[k]]]

\* encodeComponentParams(component, override): the categorical parameter is
\* sent as the ordinal of the chosen option (the map's fallback), here counted
\* from 1, with 0 for a component that has no categorical parameter; without
\* an override the current value is the first option.
encodeComponentParams(component, override) ==
  [value |-> component.value,
   mode |-> IF component.opts = 0 THEN 0
            ELSE IF override # 0 THEN override
            ELSE 1]

\* getConfigPayloadV2(): the configuration document of the live state.
getConfigPayloadV2(s) ==
  [controls |-> [steps |-> s.steps],
   layers |-> [l \in 1..Len(s.layers) |->
                 [c \in 1..Len(s.layers[l]) |->
                    [name |-> s.layers[l][c],
                     params |-> encodeComponentParams(Component(s, s.layers[l][c]), 0),
                     opts |-> Component(s, s.layers[l][c]).opts]]]]

\* ------------------------------------------------------------- validation
ValidationError(code, message, path) == [code |-> code, message |-> message, path |-> path]

\* A JavaScript number: a finite one (an integer here), NaN, or an infinity.
Num(n) == [nan |-> FALSE, inf |-> 0, v |-> n]
NaN == [nan |-> TRUE, inf |-> 0, v |-> 0]
Infinity == [nan |-> FALSE, inf |-> 1, v |-> 0]
isFinite(x) == ~x.nan /\ x.inf = 0
\* x < n and x > n for a number x and an integer n; false when x is NaN.
lessThan(x, n) == ~x.nan /\ (x.inf = -1 \/ (x.inf = 0 /\ x.v < n))
greaterThan(x, n) == ~x.nan /\ (x.inf = 1 \/ (x.inf = 0 /\ x.v > n))

\* A value a configuration may hold where a number is expected.
NumberValue(x) == [t |-> "number", num |-> x, str |-> ""]
StringValue(text) == [t |-> "string", num |-> NaN, str |-> text]
Undefined == [t |-> "undefined", num |-> NaN, str |-> ""]
Null == [t |-> "null", num |-> NaN, str |-> ""]

\* RUN_LIMITS.maxEpisodes
maxEpisodes == 2

\* Number(value): undefined is NaN, null and the empty string are 0, a
\* string of digits is its number and any other string is NaN.
Number(value) ==
  IF value.t = "number" THEN value.num
  ELSE IF value.t = "undefined" THEN NaN
  ELSE IF value.t = "null" THEN Num(0)
  ELSE IF value.str = "" THEN Num(0)
  ELSE IF value.str = "0" THEN Num(0)
  ELSE IF value.str = "9999" THEN Num(9999)
  ELSE NaN

\* readControls(config) of a config that is an object: the controls object
\* when there is one, the top-level fields otherwise.
readControls(config) ==
  LET from == IF config.controls.object THEN config.controls ELSE config.top
  IN  [steps |-> Number(from.steps), episodes |-> Number(from.episodes),
       seed |-> Number(from.seed)]

\* The checks of the controls in validateConfigPayload, each pushing its
\* error.
controlErrors(c) ==
  (IF ~isFinite(c.steps) \/ lessThan(c.steps, 1)
     THEN << ValidationError("validation.steps_invalid", "Steps must be a positive number.", 0) >>
     ELSE << >>)
  \o (IF greaterThan(c.steps, maxSteps)
        THEN << ValidationError("validation.steps_limit", "Steps exceeds limit.", 0) >>
        ELSE << >>)
  \o (IF ~isFinite(c.episodes) \/ lessThan(c.episodes, 1)
        THEN << ValidationError("validation.episodes_invalid", "Episodes must be a positive number.", 0) >>
        ELSE << >>)
  \o (IF greaterThan(c.episodes, maxEpisodes)
        THEN << ValidationError("validation.episodes_limit", "Episodes exceeds limit.", 0) >>
        ELSE << >>)
  \o (IF ~isFinite(c.seed)
        THEN << ValidationError("validation.cfg_invalid", "Seed must be numeric.", 0) >>
        ELSE << >>)

\* What a call ends in: the list it returns, or a TypeError thrown.
Returns(errors) == [threw |-> FALSE, errors |-> errors]
Throws == [threw |-> TRUE, errors |-> << >>]

\* A stream's type: a string, or no string at all.
TypeValue(text) == [string |-> TRUE, str |-> text]
NoType == [string |-> FALSE, str |-> ""]

\* A stream's params: an object with the keys given, nothing (undefined,
\* null, or a falsy primitive), or a truthy primitive (a string, a number).
ParamsObject(keys) == [kind |-> "object", keys |-> keys]
NoParams == [kind |-> "nothing", keys |-> {}]
PrimitiveParams == [kind |-> "primitive", keys |-> {}]

\* A stream that is an object, and a layer entry that is none.
Stream(type, params) == [object |-> TRUE, type |-> type, params |-> params]
NoStream == [object |-> FALSE, type |-> NoType, params |-> NoParams]

\* streamDefs[stream.type] || []: the definitions of a known type, the
\* empty array for an unknown one, and for "toString" the function every
\* object inherits, which is no array.
streamDefs(type) ==
  IF type.string /\ type.str = "Price"
    THEN [array |-> TRUE, defs |-> << "start", "drift" >>]
  ELSE IF type.string /\ type.str = "toString"
    THEN [array |-> FALSE, defs |-> << >>]
  ELSE [array |-> TRUE, defs |-> << >>]

\* The path of an error about stream streamIndex of layer layerIndex, and
\* about the layer itself.
streamPath(layerIndex, streamIndex) == layerIndex * 10 + streamIndex

RECURSIVE paramErrors(_, _, _, _)
\* defs.forEach: one PARAM_MISSING error per definition whose key is not in
\* params, in order.
paramErrors(defs, keys, path, k) ==
  IF k > Len(defs) THEN << >>
  ELSE (IF defs[k] \notin keys
          THEN << ValidationError("validation.param_missing", defs[k], path) >>
          ELSE << >>)
       \o paramErrors(defs, keys, path, k + 1)

\* The body of layer.forEach for one stream. `def.key in params` throws a
\* TypeError when params is a primitive, and defs.forEach is no function
\* when defs is no array.
streamErrors(stream, path) ==
  IF ~stream.object
    THEN Returns(<< ValidationError("validation.stream_invalid", "Stream object is invalid.", path) >>)
  ELSE LET typeErrors ==
             IF ~stream.type.string \/ stream.type.str = ""
               THEN << ValidationError("validation.type_missing", "Stream type is missing.", path) >>
               ELSE << >>
           defs == streamDefs(stream.type)
       IN  IF ~defs.array THEN Throws
           ELSE IF defs.defs # << >> /\ stream.params.kind = "primitive" THEN Throws
           ELSE Returns(typeErrors \o paramErrors(defs.defs, stream.params.keys, path, 1))

\* One call after another, the second not made when the first threw.
andThen(first, second) ==
  IF first.threw THEN Throws
  ELSE IF second.threw THEN Throws
  ELSE Returns(first.errors \o second.errors)

RECURSIVE streamsErrors(_, _, _)
\* layer.forEach from stream streamIndex on.
streamsErrors(layer, layerIndex, streamIndex) ==
  IF streamIndex > Len(layer.streams) THEN Returns(<< >>)
  ELSE LET first == streamErrors(layer.streams[streamIndex],
                                 streamPath(layerIndex, streamIndex))
       IN  IF first.threw THEN Throws
           ELSE andThen(first, streamsErrors(layer, layerIndex, streamIndex + 1))

RECURSIVE layerErrors(_, _)
\* config.layers.forEach from layer layerIndex on: a LAYER_EMPTY error for
\* a layer that is no array or has no stream, the errors of its streams
\* otherwise.
layerErrors(layers, layerIndex) ==
  IF layerIndex > Len(layers) THEN Returns(<< >>)
  ELSE LET layer == layers[layerIndex]
           first == IF ~layer.array \/ Len(layer.streams) = 0
                      THEN Returns(<< ValidationError(LAYER_EMPTY, "Layer has no streams.", layerIndex) >>)
                      ELSE streamsErrors(layer, layerIndex, 1)
       IN  IF first.threw THEN Throws
           ELSE andThen(first, layerErrors(layers, layerIndex + 1))

\* validateConfigPayload(config, STREAM_DEFS, RUN_LIMITS). config.object:
\* config is an object; config.layers.array: config.layers is an array.
validateConfigPayload(config) ==
  IF ~config.object
    THEN Returns(<< ValidationError("validation.cfg_invalid", "Config is missing or invalid.", 0) >>)
  ELSE IF ~config.layers.array \/ Len(config.layers.items) = 0
    THEN Returns(controlErrors(readControls(config))
                 \o << ValidationError(LAYERS_INVALID, "At least one layer is required.", 0) >>)
  ELSE andThen(Returns(controlErrors(readControls(config))),
               layerErrors(config.layers.items, 1))

\* The ConfigV2 document of the page as validateConfigPayload reads it:
\* runSimulation has set state.episodes to a number from 1 to maxEpisodes
\* and state.seed to a finite number, and getConfigPayloadV2 gives every
\* stream its component's type and its params with the type's defaults.
asConfig(configV2) ==
  [object |-> TRUE,
   version |-> "PlaygroundConfigV2",
   controls |-> [object |-> TRUE,
                 steps |-> NumberValue(Num(configV2.controls.steps)),
                 episodes |-> NumberValue(Num(1)),
                 seed |-> NumberValue(Num(0))],
   top |-> [steps |-> Undefined, episodes |-> Undefined, seed |-> Undefined],
   layers |-> [array |-> TRUE,
               items |-> [l \in 1..Len(configV2.layers) |->
                            [array |-> TRUE,
                             streams |-> [c \in 1..Len(configV2.layers[l]) |->
                                            Stream(TypeValue("Price"),
                                                   ParamsObject({"start", "drift"}))]]]]]

\* -------------------------------------------------------------- scenarios
\* The categories of buildScenarioList: every component with a non-empty
\* condition-kind option list, in Object.values order.
categoriesOf(s) ==
  LET hasAxis(c) == c.opts > 0
  IN  SelectSeq(s.components, hasAxis)

RECURSIVE walk(_, _, _, _)
\* walk(i, current, labelParts) of buildScenarioList; opt runs over the
\* options of category i from `from` on, which is the forEach.
walk(categories, i, labelParts, from) ==
  IF i > Len(categories)
    THEN << [label |-> labelParts, overrides |-> labelParts] >>
  ELSE IF from > categories[i].opts THEN << >>
  ELSE walk(categories, i + 1,
            Append(labelParts, [componentId |-> categories[i].id, opt |-> from]), 1)
       \o walk(categories, i, labelParts, from + 1)

\* buildScenarioList(): "Base" is the scenario with no label parts.
buildScenarioList(s) ==
  IF Len(categoriesOf(s)) = 0 THEN << [label |-> << >>, overrides |-> << >>] >>
  ELSE walk(categoriesOf(s), 1, << >>, 1)

\* allScenarios.slice(-RUN_LIMITS.maxScenarios): the last n, not the first.
sliceLast(seq, n) ==
  SubSeq(seq, IF Len(seq) < n THEN 1 ELSE Len(seq) - n + 1, Len(seq))

\* allScenarios.slice(0, RUN_LIMITS.maxScenarios)
slice(seq, n) == SubSeq(seq, 1, IF Len(seq) < n THEN Len(seq) ELSE n)

\* overrideMap[componentId] of runSimulation, 0 when the scenario does not
\* override the component.
overrideOf(scenario, componentId) ==
  IF \E k \in 1..Len(scenario.overrides) : scenario.overrides[k].componentId = componentId
    THEN scenario.overrides[CHOOSE k \in 1..Len(scenario.overrides) :
                              scenario.overrides[k].componentId = componentId].opt
    ELSE 0

\* buildRunPayload(config, overrideLayers) of schemas.js: the controls of the
\* configuration and the layers handed in.
buildRunPayload(config, overrideLayers) ==
  [steps |-> config.controls.steps, layers |-> overrideLayers]

\* buildPayloadWithOverrides(overrideMap), read from the state s it is
\* called in.
buildPayloadWithOverrides(s, scenario) ==
  LET overrideLayers ==
        [l \in 1..Len(s.layers) |->
           [c \in 1..Len(s.layers[l]) |->
              [name |-> s.layers[l][c],
               params |-> encodeComponentParams(Component(s, s.layers[l][c]),
                                               overrideOf(scenario, s.layers[l][c]))]]]
  IN  buildRunPayload(getConfigPayloadV2(s), overrideLayers)

\* ---------------------------------------------------------- playground.js
NoError == createError("", "")
NoConfig == [controls |-> [steps |-> 0], layers |-> << >>]
\* Clock readings in one second of the ISO timestamp, scaled like maxRunMs.
MsPerSecond == 2

\* hashText(text): the digest of the serialized configuration; a digest
\* that tells any two texts apart stands for SHA-256.
hashText(text) == [digest |-> text]

\* `${runStartedAt.toISOString().replace(/[^\d]/g, "").slice(0, 14)}-
\* ${configHash.slice(-8)}`: the start time down to its second, and the
\* tail of the digest (taken here to tell as much as the whole digest).
runId(runStartedAt, configHash) ==
  [stamp |-> runStartedAt \div MsPerSecond, suffix |-> configHash.digest]

NoArtifact ==
  [made |-> FALSE, run_id |-> runId(0, hashText(NoConfig)), config |-> NoConfig, episodes |-> << >>,
   warnings |-> << >>, errors |-> << >>]

\* let isRunning = false; let cancelRequested = false; let pyodideReady =
\* false; let lastRunArtifact = null; let lastRunConfigPayload = null; the
\* two error panels empty; stepsInput as syncRunInputs leaves it; the two
\* buttons as the setRunButtonState(false) of the page script leaves them.
NewApp ==
  [isRunning |-> FALSE, cancelRequested |-> FALSE, pyodideReady |-> FALSE,
   lastRunArtifact |-> NoArtifact, lastRunConfigPayload |-> NoConfig,
   validationErrors |-> << >>, runtimeError |-> NoError, stepsInput |-> 1,
   runBtnDisabled |-> TRUE, cancelBtnDisabled |-> TRUE]

\* On whose behalf a request was made: a caller of the dispatcher's own
\* interface ("client"), the loadPyodideAndCode() of the page load ("boot"),
\* the runtime.run of invocation r of runSimulation ("run") or the
\* loadPyodideAndCode() in its finally block ("finally").
Owner(k, r) == [k |-> k, r |-> r]

InitPayload == [steps |-> 0, layers |-> << >>]

\* setRunButtonState(running): a disabled button takes no click.
setRunButtonState(W, running) ==
  [W EXCEPT !.app.runBtnDisabled = running \/ ~W.app.pyodideReady,
            !.app.cancelBtnDisabled = ~running]

\* showValidationErrors(errors); showRuntimeError(errorObj)
showValidationErrors(W, errors) == [W EXCEPT !.app.validationErrors = errors]
showRuntimeError(W, errorObj) == [W EXCEPT !.app.runtimeError = errorObj]

\* clearResults(): empties the result panes and ends with
\* showValidationErrors([]) and showRuntimeError(null).
clearResults(W) == showRuntimeError(showValidationErrors(W, << >>), NoError)

\* loadPyodideAndCode() up to its await: runtime.init() sends the request.
loadPyodideAndCode(W, owner) == request(W, "init", InitPayload, owner)

\* loadPyodideAndCode() after its await; the call made by the finally block
\* of runSimulation then lets that invocation return.
loadSettled(W, id) ==
  LET out == W.req[id].out
      owner == W.req[id].owner
      W1 == IF out.ok
              THEN [W EXCEPT !.app.pyodideReady = TRUE]
              ELSE showRuntimeError([W EXCEPT !.app.pyodideReady = FALSE],
                     normalizeError(out.err, LOAD_FAILED, "Failed to load Pyodide runtime."))
      W2 == setRunButtonState(W1, FALSE)
  IN  IF owner.k = "finally" THEN [W2 EXCEPT !.runs[owner.r].pc = "end"] ELSE W2

\* A finally block that never calls loadPyodideAndCode().
finallyNoReload(W, r) ==
  LET W0 == [W EXCEPT !.app.isRunning = FALSE, !.app.cancelRequested = FALSE,
                      !.runs[r].endMs = W.now]
      W1 == setRunButtonState(W0, FALSE)
  IN  [W1 EXCEPT !.runs[r].pc = "end"]

\* A finally block that leaves cancelRequested as it is.
finallyKeepsCancel(W, r) ==
  LET W0 == [W EXCEPT !.app.isRunning = FALSE, !.runs[r].endMs = W.now]
      W1 == setRunButtonState(W0, FALSE)
  IN  IF ~W1.rt.ready
        THEN [loadPyodideAndCode(W1, Owner("finally", r)) EXCEPT !.runs[r].pc = "init"]
        ELSE [W1 EXCEPT !.runs[r].pc = "end"]

\* A finally block that leaves isRunning as it is.
finallyKeepsRunning(W, r) ==
  LET W0 == [W EXCEPT !.app.cancelRequested = FALSE, !.runs[r].endMs = W.now]
      W1 == setRunButtonState(W0, FALSE)
  IN  IF ~W1.rt.ready
        THEN [loadPyodideAndCode(W1, Owner("finally", r)) EXCEPT !.runs[r].pc = "init"]
        ELSE [W1 EXCEPT !.runs[r].pc = "end"]

\* The finally block of runSimulation. (endMs notes when it is entered.)
finally(W, r) ==
  LET W0 == [W EXCEPT !.app.isRunning = FALSE, !.app.cancelRequested = FALSE,
                      !.runs[r].endMs = W.now]
      W1 == setRunButtonState(W0, FALSE)
  IN  IF ~W1.rt.ready
        THEN [loadPyodideAndCode(W1, Owner("finally", r)) EXCEPT !.runs[r].pc = "init"]
        ELSE [W1 EXCEPT !.runs[r].pc = "end"]

\* A catch block that also forgets the stored artifact and replay target.
catchForgetsLastRun(W, r, err) ==
  LET normalized == normalizeError(err, FAILED, "Simulation failed.")
      W1 == [W EXCEPT !.runs[r].outcome = "error", !.runs[r].error = normalized,
                      !.app.lastRunArtifact = NoArtifact,
                      !.app.lastRunConfigPayload = NoConfig]
  IN  finally(showRuntimeError(W1, normalized), r)

\* A catch block that reports whatever was thrown as runtime.failed.
catchAsFailed(W, r, err) ==
  LET normalized == createError(FAILED, "Simulation failed.")
      W1 == [W EXCEPT !.runs[r].outcome = "error", !.runs[r].error = normalized]
  IN  finally(showRuntimeError(W1, normalized), r)

\* The catch block of runSimulation, then finally.
catch(W, r, err) ==
  LET normalized == normalizeError(err, FAILED, "Simulation failed.")
      W1 == [W EXCEPT !.runs[r].outcome = "error", !.runs[r].error = normalized]
  IN  finally(showRuntimeError(W1, normalized), r)

\* buildRunResultV2 and what follows it in the try block: the artifact is
\* stored with the configuration taken at the start.
aggregate(W, r) ==
  LET run == W.runs[r]
      durationMs == W.now - run.runStartMs
      runResultV2 ==
        [made |-> TRUE, run_id |-> runId(run.runStartMs, hashText(run.configV2)),
         config |-> run.configV2,
         episodes |-> run.results[1].result.eps,
         warnings |-> IF run.truncated THEN << "Scenario count capped." >> ELSE << >>,
         errors |-> IF durationMs > maxRunMs
                      THEN << createError(LIMIT_EXCEEDED, "Runtime limit exceeded.") >>
                      ELSE << >>]
      W1 == [W EXCEPT !.app.lastRunArtifact = runResultV2,
                      !.app.lastRunConfigPayload = run.configV2,
                      !.runs[r].outcome = "done",
                      !.runs[r].artifact = runResultV2]
  IN  finally(W1, r)

\* assertRunPayloadBridge(payload)
payloadBridgeOk(payload) == Len(payload.layers) > 0

\* The for loop without its elapsed-time check.
loopStepUntimed(W, r) ==
  LET run == W.runs[r]
      i == Len(run.results) + 1
      scenario == run.scenarios[i]
      payload == buildPayloadWithOverrides(W.state, scenario)
      W1 == request(W, "run", payload, Owner("run", r))
  IN  IF i > Len(run.scenarios)
        THEN IF Len(run.results) = 0
               THEN finally(clearResults([W EXCEPT !.runs[r].outcome = "empty"]), r)
               ELSE aggregate(W, r)
      ELSE IF W.app.cancelRequested
        THEN catch(W, r, createError(CANCELLED, "Run cancelled by user."))
      ELSE IF ~payloadBridgeOk(payload)
        THEN catch(W, r, createError(LAYERS_INVALID, "Runtime payload requires at least one layer."))
      ELSE IF W1.ovf THEN W1
      ELSE [W1 EXCEPT !.runs[r].pc = "run",
                      !.runs[r].sent = Append(@, [i |-> i, scenario |-> scenario, payload |-> payload,
                                                  requestId |-> W1.rt.requestSeq])]

\* One pass of the for loop from its head, with i = results.length, up to
\* `await runtime.run(payload)`; past the last scenario, the aggregation.
loopStep(W, r) ==
  LET run == W.runs[r]
      i == Len(run.results) + 1
      elapsed == W.now - run.runStartMs
      scenario == run.scenarios[i]
      payload == buildPayloadWithOverrides(W.state, scenario)
      W1 == request(W, "run", payload, Owner("run", r))
  IN  IF i > Len(run.scenarios)
        THEN IF Len(run.results) = 0
               THEN finally(clearResults([W EXCEPT !.runs[r].outcome = "empty"]), r)
               ELSE aggregate(W, r)
      ELSE IF W.app.cancelRequested
        THEN catch(W, r, createError(CANCELLED, "Run cancelled by user."))
      ELSE IF elapsed > maxRunMs
        THEN catch(W, r, createError(LIMIT_EXCEEDED, "Run exceeded limit."))
      ELSE IF ~payloadBridgeOk(payload)
        THEN catch(W, r, createError(LAYERS_INVALID, "Runtime payload requires at least one layer."))
      ELSE IF W1.ovf THEN W1
      ELSE [W1 EXCEPT !.runs[r].pc = "run",
                      !.runs[r].sent = Append(@, [i |-> i, scenario |-> scenario, payload |-> payload,
                                                  requestId |-> W1.rt.requestSeq])]

\* A loop that notes a failed scenario and goes on to the next.
runResumedSkips(W, r, id) ==
  LET out == W.req[id].out
  IN  loopStep([W EXCEPT !.runs[r].results =
                  Append(@, [label |-> W.runs[r].scenarios[Len(W.runs[r].results) + 1].label,
                             result |-> out.payload, requestId |-> id])], r)

\* results.unshift(...) where the code has results.push(...): the newest
\* result goes to the front.
runResumedUnshift(W, r, id) ==
  LET out == W.req[id].out
  IN  IF out.ok
        THEN loopStep([W EXCEPT !.runs[r].results =
                         << [label |-> W.runs[r].scenarios[Len(W.runs[r].results) + 1].label,
                             result |-> out.payload, requestId |-> id] >> \o @], r)
        ELSE catch(W, r, out.err)

\* runSimulation after `await runtime.run(payload)`.
runResumed(W, r, id) ==
  LET out == W.req[id].out
  IN  IF out.ok
        THEN loopStep([W EXCEPT !.runs[r].results =
                         Append(@, [label |-> W.runs[r].scenarios[Len(W.runs[r].results) + 1].label,
                                    result |-> out.payload, requestId |-> id])], r)
        ELSE catch(W, r, out.err)

\* runSimulation after `await hashText(...)`: the try block begins.
\* A loop whose first pass does not wait for runtime.run before the next.
hashDoneNoAwait(W, r) ==
  loopStep(loopStep(setRunButtonState([W EXCEPT !.app.isRunning = TRUE], TRUE), r), r)

hashDone(W, r) ==
  loopStep(setRunButtonState([W EXCEPT !.app.isRunning = TRUE], TRUE), r)

\* runSimulation without the return on validation errors.
runSimulationUnchecked(W) ==
  LET W0 == clearResults(W)
      steps == IF W.app.stepsInput < 1 THEN 1
               ELSE IF W.app.stepsInput > maxSteps THEN maxSteps ELSE W.app.stepsInput
      W1 == [W0 EXCEPT !.state.steps = steps]
      configV2 == getConfigPayloadV2(W1.state)
      allScenarios == buildScenarioList(W1.state)
      scenarios == slice(allScenarios, maxScenarios)
      run == [pc |-> "hash", outcome |-> "", error |-> NoError, configV2 |-> configV2,
              validationErrors |-> validateConfigPayload(asConfig(configV2)).errors, allScenarios |-> allScenarios,
              scenarios |-> scenarios, truncated |-> Len(allScenarios) > Len(scenarios),
              runStartMs |-> W.now, results |-> << >>, sent |-> << >>,
              artifact |-> NoArtifact, cancelAt |-> 0, endMs |-> W.now]
  IN  IF Len(allScenarios) = 0
        THEN clearResults([W1 EXCEPT !.runs = Append(@, [run EXCEPT !.pc = "end", !.outcome = "empty"])])
      ELSE [W1 EXCEPT !.runs = Append(@, run), !.app.cancelRequested = FALSE]

\* runSimulation from its two entry guards (both passed) up to
\* `await hashText(...)`, or to the return on a validation error.
runSimulation(W) ==
  LET W0 == clearResults(W)
      steps == IF W.app.stepsInput < 1 THEN 1
               ELSE IF W.app.stepsInput > maxSteps THEN maxSteps ELSE W.app.stepsInput
      W1 == [W0 EXCEPT !.state.steps = steps]
      configV2 == getConfigPayloadV2(W1.state)
      validationErrors == validateConfigPayload(asConfig(configV2)).errors
      allScenarios == buildScenarioList(W1.state)
      scenarios == slice(allScenarios, maxScenarios)
      run == [pc |-> "hash", outcome |-> "", error |-> NoError, configV2 |-> configV2,
              validationErrors |-> validationErrors, allScenarios |-> allScenarios,
              scenarios |-> scenarios, truncated |-> Len(allScenarios) > Len(scenarios),
              runStartMs |-> W.now, results |-> << >>, sent |-> << >>,
              artifact |-> NoArtifact, cancelAt |-> 0, endMs |-> W.now]
  IN  IF Len(validationErrors) > 0
        THEN clearResults(showValidationErrors(
               [W1 EXCEPT !.runs = Append(@, [run EXCEPT !.pc = "end", !.outcome = "validation",
                                                         !.scenarios = << >>, !.allScenarios = << >>])],
               validationErrors))
      ELSE IF Len(allScenarios) = 0
        THEN clearResults([W1 EXCEPT !.runs = Append(@, [run EXCEPT !.pc = "end", !.outcome = "empty"])])
      ELSE [W1 EXCEPT !.runs = Append(@, run), !.app.cancelRequested = FALSE]

\* The continuation of a settled request: the dispatcher method that awaited
\* it, then the caller that awaited the method.
continue(W, id) ==
  LET q == W.req[id]
      W1 == IF q.type = "init" THEN initSettled(W, id) ELSE runSettled(W, id)
  IN  IF q.owner.k = "client" THEN W1
      ELSE IF q.type = "init" THEN loadSettled(W1, id)
      ELSE runResumed(W1, q.owner.r, id)

RECURSIVE drain(_, _)
\* The microtasks a handler leaves behind: the continuations of the requests
\* it settled, in the order of their identifiers (the pending Map's order).
drain(W, ids) ==
  IF ids = {} \/ W.ovf THEN W
  ELSE LET id == CHOOSE i \in ids : \A j \in ids : i <= j
       IN  drain(continue(W, id), ids \ {id})

\* The click handler of cancelBtn. (cancelAt notes, for every invocation that
\* is waiting for runtime.run, how many scenarios it had sent when cancel was
\* asked for.)
cancelClick(W) ==
  LET W0 == [W EXCEPT !.runs = [r \in 1..Len(W.runs) |->
                 IF W.runs[r].pc = "run" /\ W.runs[r].cancelAt = 0
                   THEN [W.runs[r] EXCEPT !.cancelAt = Len(W.runs[r].sent)]
                   ELSE W.runs[r]]]
      W1 == terminate([W0 EXCEPT !.app.cancelRequested = TRUE])
  IN  IF ~W.app.isRunning THEN W0
      ELSE drain(W1, W0.rt.pending)

\* ----------------------------------------------------------------- actions
\* The worker takes the next message of its inbox.
WorkerReceive ==
  \E w \in 1..Len(wk) :
    /\ wk[w].status = "live"
    /\ wk[w].inbox # << >>
    /\ Commit(workerReceive(World, w))

\* Work in progress in the worker ends and is answered.
WorkerComplete ==
  \E w \in 1..Len(wk) :
    /\ wk[w].status = "live"
    /\ \E m \in wk[w].busy, good \in BOOLEAN :
         \E result \in (IF good /\ m.type = "run" THEN BackendResults ELSE {NoResult}) :
           Commit(workerComplete(World, w, m, good, result))

\* A message event of a worker reaches worker.onmessage.
OnMessage ==
  \E w \in 1..Len(wk) :
    /\ wk[w].status = "live"
    /\ wk[w].outbox # << >>
    /\ LET W1 == [World EXCEPT !.wk[w].outbox = Tail(@)]
           W2 == onmessage(W1, Head(wk[w].outbox))
       IN  Commit(drain(W2, W1.rt.pending \ W2.rt.pending))

\* An error event of a worker reaches worker.onerror. The handler stays on
\* a worker the dispatcher has let go of without terminating it.
OnError ==
  \E w \in 1..Len(wk) :
    /\ wk[w].status = "live"
    /\ nerr < MaxErrors
    /\ LET W1 == [World EXCEPT !.nerr = @ + 1, !.hist.erred = w]
           W2 == onerror(W1)
       IN  Commit(drain(W2, W1.rt.pending))

\* The same event where a worker may fail more than once.
OnErrorAgain ==
  \E w \in 1..Len(wk) :
    /\ wk[w].status = "live"
    /\ nerr < MaxCrashes
    /\ LET W1 == [World EXCEPT !.nerr = @ + 1, !.hist.erred = w]
           W2 == onerror(W1)
       IN  Commit(drain(W2, W1.rt.pending))

\* A caller of the dispatcher: init(), run(payload), terminate().
ClientInit ==
  /\ rt.requestSeq < MaxReq
  /\ Commit(request(World, "init", InitPayload, Owner("client", 0)))

ClientRun ==
  /\ rt.requestSeq < MaxReq
  /\ Commit(request(World, "run", InitPayload, Owner("client", 0)))

ClientTerminate ==
  \E W2 \in {terminate(World)} : Commit(drain(W2, rt.pending))

\* runBtn click (runSimulation) when a guard turns it away.
RunIgnored ==
  /\ ~app.runBtnDisabled
  /\ app.isRunning \/ ~app.pyodideReady
  /\ UNCHANGED vars

\* runBtn click (runSimulation) past the guards.
RunClick ==
  /\ ~app.runBtnDisabled
  /\ ~app.isRunning
  /\ app.pyodideReady
  /\ Len(runs) < MaxRuns
  /\ Commit(runSimulation(World))

\* hashText resolves.
HashDone ==
  \E r \in 1..Len(runs) :
    /\ runs[r].pc = "hash"
    /\ Commit(hashDone(World, r))

\* cancelBtn click.
CancelClick ==
  /\ ~app.cancelBtnDisabled
  /\ Commit(cancelClick(World))

\* The user changes a numeric parameter of L1S1 in the grid.
EditParam ==
  /\ nedit < MaxEdits
  /\ nedit' = nedit + 1
  /\ HasComponent(state, "L1S1")
  /\ state' = setParam(state, "L1S1", 1 - Component(state, "L1S1").value)
  /\ UNCHANGED << rt, req, wk, nerr, app, runs, now, hist, arg, ret >>

\* The user deletes a component in the editor.
RemoveComponent ==
  \E id \in {"L1S1", "L2S1"} :
      /\ nedit < MaxEdits
    /\ nedit' = nedit + 1
    /\ HasComponent(state, id)
    /\ state' = removeComponent(state, id)
    /\ UNCHANGED << rt, req, wk, nerr, app, runs, now, hist, arg, ret >>

\* The user types into stepsInput.
EditSteps ==
  /\ nedit < MaxEdits
  /\ nedit' = nedit + 1
  /\ app' = [app EXCEPT !.stepsInput = IF @ = 1 THEN maxSteps + 1 ELSE 1]
  /\ UNCHANGED << rt, req, wk, nerr, runs, state, now, hist, arg, ret >>

\* Time passes while an invocation of runSimulation is under way.
Tick ==
  /\ now < MaxNow
  /\ \E r \in 1..Len(runs) : runs[r].pc \in {"hash", "run"}
  /\ now' = now + 1
  /\ UNCHANGED << rt, req, wk, nerr, nedit, app, runs, state, hist, arg, ret >>

\* ---------------------------------------------------------- specifications
Blank(s) ==
  [rt |-> NewRuntime, req |-> << >>, wk |-> << >>, nerr |-> 0, app |-> NewApp,
   runs |-> << >>, state |-> s, now |-> 0,
   hist |-> [terminated |-> FALSE, initOk |-> FALSE, erred |-> NullWorker],
   ovf |-> FALSE]

Start(W) ==
  /\ rt = W.rt
  /\ req = W.req
  /\ wk = W.wk
  /\ nerr = W.nerr
  /\ nedit = 0
  /\ app = W.app
  /\ runs = W.runs
  /\ state = W.state
  /\ now = W.now
  /\ hist = W.hist

\* No function is studied on its own.
Unused == arg = << >> /\ ret = << >>

\* The page after its script has run: a template is loaded and
\* loadPyodideAndCode() has sent the first init request.
Init ==
  /\ \E t \in TemplateOpts :
       Start(loadPyodideAndCode(Blank(Template(t[1], t[2])), Owner("boot", 0)))
  /\ Unused

\* The page in use, its model left as loaded: runs, cancels, the passing of
\* time and worker crashes.
Next ==
  \/ WorkerReceive
  \/ WorkerComplete
  \/ OnMessage
  \/ OnError
  \/ RunIgnored
  \/ RunClick
  \/ HashDone
  \/ CancelClick
  \/ Tick

Spec == Init /\ [][Next]_vars

\* A message posted by a worker that is alive waits for delivery.
Undelivered ==
  \E w \in 1..Len(wk) : wk[w].status = "live" /\ wk[w].outbox # << >>

\* The same page with a worker that takes every message it is sent and
\* finishes, well or badly, whatever it has begun, and an event loop that
\* delivers every message posted to it (weak fairness of OnMessage, its
\* enabling condition written out).
SpecLive ==
  /\ Spec
  /\ WF_vars(WorkerReceive)
  /\ WF_vars(WorkerComplete)
  /\ ([]<>~Undelivered \/ []<><<OnMessage>>_vars)

\* The page in use while the user edits the model and the run controls.
NextEdit ==
  \/ WorkerReceive
  \/ WorkerComplete
  \/ OnMessage
  \/ RunIgnored
  \/ RunClick
  \/ HashDone
  \/ CancelClick
  \/ EditParam
  \/ RemoveComponent
  \/ EditSteps

SpecEdit == Init /\ [][NextEdit]_vars

\* The dispatcher on its own, under any caller: a PlaygroundRuntime fresh
\* from its constructor.
InitRuntime == Start(Blank(Template(0, 0))) /\ Unused

NextRuntime ==
  \/ ClientInit
  \/ ClientRun
  \/ ClientTerminate
  \/ WorkerReceive
  \/ WorkerComplete
  \/ OnMessage
  \/ OnError

SpecRuntime == InitRuntime /\ [][NextRuntime]_vars

\* The dispatcher under a caller that never terminates it, with workers
\* that may raise an error event more than once.
NextCrash ==
  \/ ClientInit
  \/ ClientRun
  \/ WorkerReceive
  \/ WorkerComplete
  \/ OnMessage
  \/ OnErrorAgain

SpecCrash == InitRuntime /\ [][NextCrash]_vars

\* ------------------------------------------------- scenario enumeration
\* buildScenarioList() and the stream editor that feeds it, with the
\* categorical metadata the run model above reduces to an option count.
\* A string the code takes apart or puts together is a sequence of pieces;
\* a label an option list holds is one piece.
MaxTyped == 2
TypedLabels == {"a", "b", " a", ""}
TypedOptions ==
  UNION {[1..n -> TypedLabels] : n \in 0..MaxTyped}

\* String.prototype.trim on the labels above.
trim(x) == IF x = " a" THEN "a" ELSE x

\* rawOptions.map((opt) => String(opt).trim()).filter(Boolean)
cleanOptions(raw) ==
  LET trimmed == [k \in 1..Len(raw) |-> trim(raw[k])]
      nonBlank(x) == x # ""
  IN  SelectSeq(trimmed, nonBlank)

includes(options, x) == \E k \in 1..Len(options) : options[k] = x

\* parseNumberish(value): the finite number a number or a text stands
\* for, and null for anything else.
parseNumberish(value) ==
  IF value.t = "number" THEN (IF isFinite(value.num) THEN value ELSE Null)
  ELSE IF value.t # "string" THEN Null
  ELSE IF trim(value.str) = "" THEN Null
  ELSE IF isFinite(Number(StringValue(trim(value.str))))
    THEN NumberValue(Number(StringValue(trim(value.str))))
  ELSE Null

\* `mapped ?? sourceMap[opt]`
otherwise(mapped, value) == IF mapped.t \in {"null", "undefined"} THEN value ELSE mapped

\* An object whose keys are option labels; NoMap is any value that is no
\* object.
MapOf(entries) == [object |-> TRUE, entries |-> entries]
NoMap == [object |-> FALSE, entries |-> << >>]

\* The index, counted from 0, that forEach passes last for the label opt.
lastIndex(options, opt) ==
  (CHOOSE k \in 1..Len(options) :
     /\ options[k] = opt
     /\ \A j \in (k + 1)..Len(options) : options[j] # opt) - 1

\* The map that collectParamsAndMeta() builds when no values are typed.
ordinalMap(options) ==
  MapOf([opt \in {options[k] : k \in 1..Len(options)} |->
           NumberValue(Num(lastIndex(options, opt)))])

\* normalizeCategoryMeta(info, fallbackValue)
normalizeCategoryMeta(info, fallbackValue) ==
  LET cleaned == cleanOptions(info.options)
      fallbackLabel == trim(fallbackValue)
      options == IF cleaned = << >> /\ fallbackLabel # ""
                   THEN << fallbackLabel >> ELSE cleaned
      sourceMap == IF info.map.object THEN info.map.entries ELSE << >>
  IN  [type |-> "category",
       kind |-> IF info.kind = "" THEN "condition" ELSE info.kind,
       options |-> options,
       value |-> IF includes(options, info.value) THEN info.value
                 ELSE IF options # << >> THEN options[1]
                 ELSE fallbackLabel,
       map |-> MapOf([opt \in {options[k] : k \in 1..Len(options)} |->
                        IF opt \in DOMAIN sourceMap
                          THEN otherwise(parseNumberish(sourceMap[opt]), sourceMap[opt])
                          ELSE NumberValue(Num(lastIndex(options, opt)))])]

NumberMeta ==
  [type |-> "number", kind |-> "", options |-> << >>, value |-> "", map |-> NoMap]

\* A component of state.components: its id, the key of its custom
\* parameter, that parameter's value and its paramMeta entry.
EditComponent(id, param, info) ==
  [id |-> id, key |-> << "mode" >>, param |-> param, meta |-> info]

\* The model the editor starts from: two components whose custom parameter
\* is a number.
EditStart ==
  << EditComponent(<< "L1S1" >>, "", NumberMeta),
     EditComponent(<< "L2S1" >>, "", NumberMeta) >>

\* updateStreamFromModal() on a component whose custom parameter row says
\* category: collectParamsAndMeta() splits the options typed, takes the
\* value, and mergeParamMeta() normalises the entry.
updateStreamFromModal(components, n, kind, typed, raw) ==
  LET options == cleanOptions(typed)
      rawValue == trim(raw)
      value == IF includes(options, rawValue) THEN rawValue
               ELSE IF options # << >> THEN options[1]
               ELSE rawValue
      collected == normalizeCategoryMeta(
                     [kind |-> kind, options |-> options, value |-> value,
                      map |-> ordinalMap(options)], value)
  IN  [components EXCEPT ![n].param = value,
                         ![n].meta = normalizeCategoryMeta(collected, value)]

\* `${componentId}::${key}`
overrideKey(componentId, key) == componentId \o << "::" >> \o key

\* `${componentId}.${key}=${opt}`
labelPart(componentId, key, opt) == componentId \o << "." >> \o key \o << "=", opt >>

RECURSIVE join(_)
\* labelParts.join(", ")
join(parts) ==
  IF parts = << >> THEN << >>
  ELSE IF Len(parts) = 1 THEN parts[1]
  ELSE parts[1] \o << ", " >> \o join(Tail(parts))

\* The categories of buildScenarioList with the test of the kind left out.
scenarioCategoriesAnyKind(components) ==
  LET normalized(c) == normalizeCategoryMeta(c.meta, c.param)
      isAxis(c) == /\ c.meta.type = "category"
                   /\ normalized(c).options # << >>
      axes == SelectSeq(components, isAxis)
  IN  [k \in 1..Len(axes) |->
         [componentId |-> axes[k].id, key |-> axes[k].key,
          options |-> normalized(axes[k]).options]]

\* The categories of buildScenarioList: the condition-kind categorical
\* parameters that have an option, in Object.values order.
scenarioCategories(components) ==
  LET normalized(c) == normalizeCategoryMeta(c.meta, c.param)
      isAxis(c) == /\ c.meta.type = "category"
                   /\ normalized(c).kind = "condition"
                   /\ normalized(c).options # << >>
      axes == SelectSeq(components, isAxis)
  IN  [k \in 1..Len(axes) |->
         [componentId |-> axes[k].id, key |-> axes[k].key,
          options |-> normalized(axes[k]).options]]

NoOverrides == [x \in {} |-> ""]

RECURSIVE walkCombos(_, _, _, _, _)
\* walk(i, current, labelParts) of buildScenarioList, the forEach over the
\* options of category i taken from option `from` on.
walkCombos(categories, i, current, labelParts, from) ==
  IF i > Len(categories)
    THEN << [label |-> join(labelParts), overrides |-> current] >>
  ELSE IF from > Len(categories[i].options) THEN << >>
  ELSE LET c == categories[i]
           opt == c.options[from]
           k == overrideKey(c.componentId, c.key)
           next == [x \in (DOMAIN current) \cup {k} |->
                      IF x = k THEN opt ELSE current[x]]
       IN  walkCombos(categories, i + 1, next,
                      Append(labelParts, labelPart(c.componentId, c.key, opt)), 1)
           \o walkCombos(categories, i, current, labelParts, from + 1)

\* buildScenarioList() over state.components
enumerate(components) ==
  LET categories == scenarioCategories(components)
  IN  IF categories = << >>
        THEN << [label |-> << "Base" >>, overrides |-> NoOverrides] >>
        ELSE walkCombos(categories, 1, NoOverrides, << >>, 1)

NotCalled == [called |-> FALSE, components |-> << >>, list |-> << >>]

\* The user saves the stream editor with the custom parameter as a
\* category; a scenario list built from the model as it was is let go.
UpdateStreamFromModal ==
  \E n \in 1..Len(arg), kind \in {"condition", "rule"},
     typed \in TypedOptions, raw \in {"", "a", "c"} :
    /\ arg' = updateStreamFromModal(arg, n, kind, typed, raw)
    /\ ret' = NotCalled
    /\ UNCHANGED << rt, req, wk, nerr, nedit, app, runs, state, now, hist >>

\* The page calls buildScenarioList().
BuildScenarioList ==
  /\ ret' = [called |-> TRUE, components |-> arg, list |-> enumerate(arg)]
  /\ UNCHANGED << rt, req, wk, nerr, nedit, app, runs, state, now, hist, arg >>

InitEnum ==
  /\ Start(Blank(Template(0, 0)))
  /\ arg = EditStart
  /\ ret = NotCalled

NextEnum ==
  \/ UpdateStreamFromModal
  \/ BuildScenarioList

\* The stream editor and the scenario list on their own.
SpecEnum == InitEnum /\ [][NextEnum]_vars

\* ------------------------------------------------- validation on its own
\* What a configuration may hold as steps, episodes or seed.
ControlValues ==
  {NumberValue(Num(n)) : n \in {0, 1, maxSteps + 1}}
  \cup {NumberValue(NaN), NumberValue(Infinity), Undefined, Null,
        StringValue(""), StringValue("9999"), StringValue("abc")}

SeedValues == {NumberValue(Num(0)), Undefined}

NoControls == [steps |-> Undefined, episodes |-> Undefined, seed |-> Undefined]

\* The version tags: the current one, the prior one migration knows, and
\* one it does not.
VersionValues == {"PlaygroundConfigV2", "PlaygroundConfigV1", "PlaygroundConfigV0"}

\* The entries of a layer: none that is an object, and objects with a type
\* that is missing, known, unknown or the name of an inherited property,
\* and with params that are missing, an object with none or all of the
\* keys of Price, or a primitive.
StreamValues ==
  {NoStream}
  \cup {Stream(type, params) :
          type \in {NoType, TypeValue("Price"), TypeValue("Custom"), TypeValue("toString")},
          params \in {NoParams, ParamsObject({}), ParamsObject({"start", "drift"}),
                      PrimitiveParams}}

\* The layers of a configuration: no array, or up to MaxLayers layers each
\* of which is no array, empty, or one stream.
MaxLayers == 2
LayerValue ==
  {[array |-> FALSE, streams |-> << >>], [array |-> TRUE, streams |-> << >>]}
  \cup {[array |-> TRUE, streams |-> << st >>] : st \in StreamValues}
LayerValues ==
  {[array |-> FALSE, items |-> << >>]}
  \cup {[array |-> TRUE, items |-> items] :
          items \in UNION {[1..n -> LayerValue] : n \in 0..MaxLayers}}

\* A configuration that is no object.
NotAnObject ==
  [object |-> FALSE, version |-> "PlaygroundConfigV2",
   controls |-> [object |-> FALSE] @@ NoControls,
   top |-> NoControls, layers |-> [array |-> FALSE, items |-> << >>]]

\* A configuration object, its controls in a controls object (nested) or
\* at the top level.
ConfigObject(vs, nested, st, ep, sd, ly) ==
  [object |-> TRUE,
   version |-> vs,
   controls |-> [object |-> nested,
                 steps |-> IF nested THEN st ELSE Undefined,
                 episodes |-> IF nested THEN ep ELSE Undefined,
                 seed |-> IF nested THEN sd ELSE Undefined],
   top |-> IF nested THEN NoControls
           ELSE [steps |-> st, episodes |-> ep, seed |-> sd],
   layers |-> ly]

NotValidated == [called |-> FALSE, threw |-> FALSE, errors |-> << >>]

\* A caller hands the configuration to validateConfigPayload.
Validate ==
  /\ ~ret.called
  /\ ret' = [called |-> TRUE] @@ validateConfigPayload(arg)
  /\ UNCHANGED << rt, req, wk, nerr, nedit, app, runs, state, now, hist, arg >>

\* The configurations handed to validateConfigPayload.
InitValidate ==
  /\ Start(Blank(Template(0, 0)))
  /\ \/ arg = NotAnObject
     \/ \E vs \in VersionValues, nested \in BOOLEAN, st \in ControlValues,
           ep \in ControlValues, sd \in SeedValues, ly \in LayerValues :
          arg = ConfigObject(vs, nested, st, ep, sd, ly)
  /\ ret = NotValidated

NextValidate == Validate

\* validateConfigPayload on its own, over the configurations above.
SpecValidate == InitValidate /\ [][NextValidate]_vars

\* -------------------------------------------------- migration on its own
\* migrateIncomingConfig of schemas.js. A document carries its version
\* tag, the flat steps, episodes and seed of the prior shape, the nested
\* controls of the current shape, its layers, which migration hands on as
\* they are, and the time it was last written (stamp).
MaxControl == 2
ControlNumbers == {NumberValue(Num(n)) : n \in 1..MaxControl}

\* A document of the prior version and one of the current version.
ConfigV1(steps, episodes, seed, layers, stamp) ==
  [version |-> "PlaygroundConfigV1",
   top |-> [steps |-> steps, episodes |-> episodes, seed |-> seed],
   controls |-> [object |-> FALSE] @@ NoControls,
   layers |-> layers, stamp |-> stamp]
ConfigV2(version, steps, episodes, seed, layers, stamp) ==
  [version |-> version,
   top |-> NoControls,
   controls |-> [object |-> TRUE, steps |-> steps, episodes |-> episodes, seed |-> seed],
   layers |-> layers, stamp |-> stamp]

Migrated(doc) == [threw |-> FALSE, code |-> "", doc |-> doc]
MigrationFailed(doc) ==
  [threw |-> TRUE, code |-> "compat.unknown_config_version", doc |-> doc]

\* migrateIncomingConfig that nests the controls of a prior-version
\* document and leaves its version tag as it was.
migrateKeepsTag(doc, at) ==
  IF doc.version = "PlaygroundConfigV2" THEN Migrated([doc EXCEPT !.stamp = at])
  ELSE IF doc.version = "PlaygroundConfigV1"
    THEN Migrated([ConfigV2("PlaygroundConfigV1", doc.top.steps, doc.top.episodes,
                            doc.top.seed, doc.layers, at)
                     EXCEPT !.version = "PlaygroundConfigV1"])
  ELSE MigrationFailed(doc)

\* migrateIncomingConfig that looks for the controls of a prior-version
\* document where the current shape has them.
migrateReadsNested(doc, at) ==
  IF doc.version = "PlaygroundConfigV2" THEN Migrated([doc EXCEPT !.stamp = at])
  ELSE IF doc.version = "PlaygroundConfigV1"
    THEN Migrated(ConfigV2("PlaygroundConfigV2", doc.controls.steps, doc.controls.episodes,
                           doc.controls.seed, doc.layers, at))
  ELSE MigrationFailed(doc)

\* migrateIncomingConfig(config) called at time `at`: a current document
\* comes back as it is but for its stamp, a prior one with the current tag
\* and its flat steps, episodes and seed as controls, and an unknown
\* version is turned away.
migrateIncomingConfig(doc, at) ==
  IF doc.version = "PlaygroundConfigV2" THEN Migrated([doc EXCEPT !.stamp = at])
  ELSE IF doc.version = "PlaygroundConfigV1"
    THEN Migrated(ConfigV2("PlaygroundConfigV2", doc.top.steps, doc.top.episodes,
                           doc.top.seed, doc.layers, at))
  ELSE MigrationFailed(doc)

NotMigrated == [stage |-> 0, first |-> Migrated(<< >>), second |-> Migrated(<< >>)]

\* A caller migrates the document.
Migrate ==
  /\ ret.stage = 0
  /\ ret' = [ret EXCEPT !.stage = 1, !.first = migrateIncomingConfig(arg, now)]
  /\ UNCHANGED << rt, req, wk, nerr, nedit, app, runs, state, now, hist, arg >>

\* The caller migrates what the migration returned.
MigrateAgain ==
  /\ ret.stage = 1
  /\ ~ret.first.threw
  /\ ret' = [ret EXCEPT !.stage = 2, !.second = migrateIncomingConfig(ret.first.doc, now)]
  /\ UNCHANGED << rt, req, wk, nerr, nedit, app, runs, state, now, hist, arg >>

\* Time passes.
Later ==
  /\ now < MaxNow
  /\ now' = now + 1
  /\ UNCHANGED << rt, req, wk, nerr, nedit, app, runs, state, hist, arg, ret >>

\* The documents handed to migrateIncomingConfig, written at time 0.
InitMigrate ==
  /\ Start(Blank(Template(0, 0)))
  /\ \E st \in ControlNumbers, ep \in ControlNumbers, sd \in ControlNumbers,
        ly \in {<< << "L1S1" >> >>, << << "L1S1" >>, << "L2S1" >> >>} :
       \/ arg = ConfigV1(st, ep, sd, ly, 0)
       \/ \E vs \in {"PlaygroundConfigV2", "PlaygroundConfigV0"} :
            arg = ConfigV2(vs, st, ep, sd, ly, 0)
  /\ ret = NotMigrated

NextMigrate ==
  \/ Migrate
  \/ MigrateAgain
  \/ Later

\* migrateIncomingConfig on its own.
SpecMigrate == InitMigrate /\ [][NextMigrate]_vars

\* ---------------------------------------------- normalizeError on its own
\* createError and normalizeError with the hints and the details that the
\* dispatcher model above leaves out. A value that may or may not be a
\* string, an array or an object says which it is.
Text(str) == [string |-> TRUE, str |-> str]
NoText == [string |-> FALSE, str |-> ""]
ArrayOf(items) == [kind |-> "array", truthy |-> TRUE, items |-> items]
ObjectOf(map) == [kind |-> "object", truthy |-> TRUE, items |-> map]
\* undefined; and a non-empty string where an array or an object is due.
Absent == [kind |-> "absent", truthy |-> FALSE, items |-> << >>]
Misplaced == [kind |-> "string", truthy |-> TRUE, items |-> << >>]

\* A thrown value: an object with the properties given (isError: an Error
\* instance), or a primitive; text is what String() or the template makes
\* of it.
Thrown(code, message, hints, details) ==
  [object |-> TRUE, code |-> code, message |-> message, hints |-> hints,
   details |-> details, text |-> "[object Object]"]
ErrorInstance ==
  [object |-> TRUE, code |-> NoText, message |-> Text("boom"), hints |-> Absent,
   details |-> Absent, text |-> "Error: boom"]
Primitive(text) ==
  [object |-> FALSE, code |-> NoText, message |-> NoText, hints |-> Absent,
   details |-> Absent, text |-> text]

\* createError(code, message, hints, details)
structuredError(code, message, hints, details) ==
  [code |-> code, message |-> message,
   hints |-> IF hints.kind = "array" THEN hints ELSE ArrayOf(<< >>),
   details |-> IF details.truthy /\ details.kind \in {"object", "array"}
                 THEN details ELSE ObjectOf(<< >>)]

\* `value || fallback`
orElse(value, fallback) == IF value.truthy THEN value ELSE fallback

\* normalizeError that hands on the fallback hints where the error's own
\* are due.
normalizeWithFallbackHints(err, fallbackCode, fallbackMessage, fallbackHints) ==
  IF err.object /\ err.code.string /\ err.message.string
    THEN structuredError(err.code.str, err.message.str,
                         fallbackHints,
                         orElse(err.details, ObjectOf(<< >>)))
    ELSE structuredError(fallbackCode, fallbackMessage, fallbackHints,
                         ObjectOf([raw |-> err.text]))

\* normalizeError(err, fallbackCode, fallbackMessage, fallbackHints)
normalize(err, fallbackCode, fallbackMessage, fallbackHints) ==
  IF err.object /\ err.code.string /\ err.message.string
    THEN structuredError(err.code.str, err.message.str,
                         orElse(err.hints, ArrayOf(<< >>)),
                         orElse(err.details, ObjectOf(<< >>)))
    ELSE structuredError(fallbackCode, fallbackMessage, fallbackHints,
                         ObjectOf([raw |-> err.text]))

\* What is thrown, and the hints a caller gives as fallback.
HintValues == {Absent, Misplaced, ArrayOf(<< >>), ArrayOf(<< "fix it" >>)}
DetailValues == {Absent, Misplaced, ObjectOf([path |-> "config"])}
ThrownValues ==
  {Thrown(code, message, hints, details) :
     code \in {NoText, Text("validation.cfg_invalid")},
     message \in {NoText, Text("bad cfg")},
     hints \in HintValues, details \in DetailValues}
  \cup {ErrorInstance, Primitive("boom"), Primitive("undefined")}
FallbackHints == {ArrayOf(<< >>), ArrayOf(<< "retry" >>), Misplaced}

NotNormalized ==
  [called |-> FALSE,
   error |-> structuredError("", "", ArrayOf(<< >>), ObjectOf(<< >>))]

\* A catch block hands what it caught to normalizeError.
Normalize ==
  /\ ~ret.called
  /\ ret' = [called |-> TRUE,
             error |-> normalize(arg.err, FAILED, "failed", arg.fallbackHints)]
  /\ UNCHANGED << rt, req, wk, nerr, nedit, app, runs, state, now, hist, arg >>

InitNormalize ==
  /\ Start(Blank(Template(0, 0)))
  /\ arg \in [err : ThrownValues, fallbackHints : FallbackHints]
  /\ ret = NotNormalized

NextNormalize == Normalize

\* normalizeError on its own, over the values above.
SpecNormalize == InitNormalize /\ [][NextNormalize]_vars

\* ---------------------------------------------------- the grid on its own
\* The layers and components under the template loads and the add and
\* remove buttons, in the customize mode, where every component is built
\* from STREAM_TEMPLATES.Custom (no categorical parameter).
MaxGridOps == 4

\* `L${layerIndex + 1}S${componentIndex + 1}`, for indices counted from 1.
streamName(layerIndex, componentIndex) ==
  "L" \o ToString(layerIndex) \o "S" \o ToString(componentIndex)

\* state.components[component.id] = component: a key already there keeps
\* its place and takes the new value.
putComponent(components, component) ==
  IF \E k \in 1..Len(components) : components[k].id = component.id
    THEN [k \in 1..Len(components) |->
            IF components[k].id = component.id THEN component ELSE components[k]]
    ELSE Append(components, component)

\* initCustomizeEmpty(): two layers of two streams.
initCustomizeEmpty(s) ==
  [s EXCEPT
     !.layers = [l \in 1..2 |-> [c \in 1..2 |-> streamName(l, c)]],
     !.components = [k \in 1..4 |->
                       buildComponent(streamName((k + 1) \div 2, 2 - (k % 2)),
                                      (k + 1) \div 2, 0)]]

\* addLayer(): one layer more, of the one default component of the mode.
addLayer(s) ==
  LET newLayerIndex == Len(s.layers) + 1
      component == buildComponent(streamName(newLayerIndex, 1), newLayerIndex, 0)
  IN  [s EXCEPT !.components = putComponent(@, component),
                !.layers = Append(@, << component.id >>)]

\* The pass of addStream's forEach over one layer; nextIndex is the
\* length of the layer.
addStreamTo(s, layerIndex) ==
  LET nextIndex == Len(s.layers[layerIndex]) + 1
      component == buildComponent(streamName(layerIndex, nextIndex), layerIndex, 0)
  IN  [s EXCEPT !.components = putComponent(@, component),
                !.layers[layerIndex] = Append(@, component.id)]

RECURSIVE addStreamFrom(_, _)
addStreamFrom(s, layerIndex) ==
  IF layerIndex > Len(s.layers) THEN s
  ELSE addStreamFrom(addStreamTo(s, layerIndex), layerIndex + 1)

\* addStream(): one stream more in every layer.
addStream(s) == addStreamFrom(s, 1)

\* The ids in the layers, layer after layer.
RECURSIVE flat(_)
flat(layers) == IF layers = << >> THEN << >> ELSE Head(layers) \o flat(Tail(layers))

GridStep(s) ==
  /\ nedit' = nedit + 1
  /\ state' = s
  /\ UNCHANGED << rt, req, wk, nerr, app, runs, now, hist, arg, ret >>

\* resetBtn click.
LoadTemplate ==
  /\ nedit < MaxGridOps
  /\ GridStep(initCustomizeEmpty(state))

\* The add-layer button.
AddLayer ==
  /\ nedit < MaxGridOps
  /\ GridStep(addLayer(state))

\* The add-stream button.
AddStream ==
  /\ nedit < MaxGridOps
  /\ GridStep(addStream(state))

\* The remove button of the modal of a component.
RemoveStream ==
  /\ nedit < MaxGridOps
  /\ \E k \in 1..Len(state.components) :
       GridStep(removeComponent(state, state.components[k].id))

InitGrid ==
  /\ Start(Blank(initCustomizeEmpty(Template(0, 0))))
  /\ Unused

NextGrid ==
  \/ LoadTemplate
  \/ AddLayer
  \/ AddStream
  \/ RemoveStream

\* The grid on its own, under at most MaxGridOps clicks.
SpecGrid == InitGrid /\ [][NextGrid]_vars

\* resetCell() for the component of the open modal: the entry keeps its
\* id and its layerIndex and takes the template's type and parameters.
resetCell(s, activeComponentId) ==
  IF ~HasComponent(s, activeComponentId) THEN s
  ELSE [s EXCEPT !.components =
          [k \in 1..Len(s.components) |->
             IF s.components[k].id = activeComponentId
               THEN [s.components[k] EXCEPT !.value = 0, !.opts = 0]
               ELSE s.components[k]]]

\* A stream of an imported configuration: its name ("" for none) and the
\* value of its parameter.
ImportedStream(name, value) == [name |-> name, value |-> value]

\* One pass of the inner forEach of applyConfigToState: component.id =
\* component.streamName = stream.name || `L..S..`, the parameter merged over
\* the defaults, state.components[component.id] = component.
applyStream(components, stream, layerIndex, streamIndex) ==
  LET id == IF stream.name = "" THEN streamName(layerIndex, streamIndex) ELSE stream.name
  IN  putComponent(components,
        [buildComponent(id, layerIndex, 0) EXCEPT !.value = stream.value])

RECURSIVE applyStreams(_, _, _, _)
\* The two forEach loops of applyConfigToState from stream streamIndex of
\* layer layerIndex on, as far as state.components goes.
applyStreams(components, layers, layerIndex, streamIndex) ==
  IF layerIndex > Len(layers) THEN components
  ELSE IF streamIndex > Len(layers[layerIndex])
    THEN applyStreams(components, layers, layerIndex + 1, 1)
  ELSE applyStreams(applyStream(components, layers[layerIndex][streamIndex], layerIndex, streamIndex),
                    layers, layerIndex, streamIndex + 1)

\* applyConfigToState(config, modeHint), its rebuilding of state.layers and
\* state.components from the layers of the migrated configuration.
applyConfigLayers(s, layers) ==
  [s EXCEPT
     !.layers = [l \in 1..Len(layers) |->
                   [c \in 1..Len(layers[l]) |->
                      IF layers[l][c].name = "" THEN streamName(l, c) ELSE layers[l][c].name]],
     !.components = applyStreams(<< >>, layers, 1, 1)]

\* The configurations a file may hold: two layers of one or two streams,
\* named by the file or left unnamed.
ImportedStreams == { ImportedStream(n, v) : n \in {"", "L1S1"}, v \in {0, 1} }
ImportedLayer == { << a >> : a \in ImportedStreams } \cup (ImportedStreams \X ImportedStreams)

\* The reset button of the modal of a component.
ResetCell ==
  /\ nedit < MaxGridOps
  /\ \E k \in 1..Len(state.components) :
       GridStep(resetCell(state, state.components[k].id))

\* importBundleFromFile(file): the configuration of the file is applied
\* before it is validated.
ImportConfig ==
  /\ nedit < MaxGridOps
  /\ \E l1, l2 \in ImportedLayer :
       GridStep(applyConfigLayers(state, << l1, l2 >>))

NextImport ==
  \/ LoadTemplate
  \/ AddLayer
  \/ AddStream
  \/ RemoveStream
  \/ ResetCell
  \/ ImportConfig

\* The grid under clicks and imports of configuration files.
SpecImport == InitGrid /\ [][NextImport]_vars

\* --------------------------------------- normalizeCategoryMeta on its own
\* The values an imported paramMeta entry may give for one label of its
\* map, and the maps it may hold over the labels "a" and "b".
MapValues == {NumberValue(Num(5)), StringValue("9999"), StringValue("abc"), Null}
SourceMaps ==
  {NoMap} \cup UNION {{MapOf(m) : m \in [keys -> MapValues]} : keys \in SUBSET {"a", "b"}}

NotNormalizedMeta == [called |-> FALSE, meta |-> NumberMeta]

\* normalizeParamMeta() hands one entry of type category to
\* normalizeCategoryMeta().
NormalizeCategoryMeta ==
  /\ ~ret.called
  /\ ret' = [called |-> TRUE,
             meta |-> normalizeCategoryMeta(arg.info, arg.fallbackValue)]
  /\ UNCHANGED << rt, req, wk, nerr, nedit, app, runs, state, now, hist, arg >>

InitCategory ==
  /\ Start(Blank(Template(0, 0)))
  /\ arg \in [info : [kind : {"", "rule"}, options : TypedOptions,
                      value : {"a", "b", ""}, map : SourceMaps],
              fallbackValue : {"", "a", "c"}]
  /\ ret = NotNormalizedMeta

NextCategory == NormalizeCategoryMeta

\* normalizeCategoryMeta on its own, over the entries above.
SpecCategory == InitCategory /\ [][NextCategory]_vars

\* ------------------------------------------------------ replay on its own
\* The run controls from the three inputs of the page through a run that
\* succeeds, and through the replay of that run, as far as the steps,
\* episodes and seed of the payload sent to the worker.

\* `x || fallback` of a number: NaN and 0 give the fallback.
orNumber(x, fallback) == IF x.nan \/ (x.inf = 0 /\ x.v = 0) THEN fallback ELSE x

\* Math.max, Math.min and Math.floor, of the whole numbers the inputs hold.
mathMax(a, b) == IF a.v >= b.v THEN a ELSE b
mathMin(a, b) == IF a.v <= b.v THEN a ELSE b
floor(x) == x

\* The fallbacks of applyConfigToState.
DefaultSteps == 20
DefaultEpisodes == 1
DefaultSeed == 123

\* runSimulation, where it reads the three inputs into state.
readRunInputs(inputs) ==
  [steps |-> mathMax(Num(1), mathMin(Num(maxSteps), orNumber(inputs.steps, Num(0)))),
   episodes |-> mathMax(Num(1), mathMin(Num(maxEpisodes), orNumber(inputs.episodes, Num(0)))),
   seed |-> orNumber(inputs.seed, Num(0))]

\* syncRunInputs(): what Number() reads back from the inputs afterwards.
syncRunInputs(controls) ==
  [steps |-> mathMin(controls.steps, Num(maxSteps)),
   episodes |-> mathMin(controls.episodes, Num(maxEpisodes)),
   seed |-> controls.seed]

\* applyConfigToState(config), as far as state.steps, state.episodes and
\* state.seed.
applyConfigToState(config, at) ==
  LET migrated == migrateIncomingConfig(config, at).doc
  IN  [steps |-> mathMax(Num(1), floor(orNumber(Number(migrated.controls.steps),
                                                 Num(DefaultSteps)))),
       episodes |-> mathMax(Num(1), floor(orNumber(Number(migrated.controls.episodes),
                                                    Num(DefaultEpisodes)))),
       seed |-> orNumber(Number(migrated.controls.seed), Num(DefaultSeed))]

\* getConfigPayloadV2() of a state with these controls and one layer of
\* one Price stream.
configOf(controls, at) ==
  ConfigV2("PlaygroundConfigV2", NumberValue(controls.steps), NumberValue(controls.episodes),
           NumberValue(controls.seed), << << "L1S1" >> >>, at)

\* That document as validateConfigPayload reads it.
asValidated(config) ==
  ConfigObject(config.version, TRUE, config.controls.steps, config.controls.episodes,
               config.controls.seed,
               [array |-> TRUE,
                items |-> << [array |-> TRUE,
                              streams |-> << Stream(TypeValue("Price"),
                                                    ParamsObject({"start", "drift"})) >>] >>])

\* buildRunPayload(config, overrideLayers), its steps, episodes and seed.
payloadControls(config) ==
  [steps |-> Number(config.controls.steps), episodes |-> Number(config.controls.episodes),
   seed |-> Number(config.controls.seed)]

NoControlNumbers == [steps |-> NaN, episodes |-> NaN, seed |-> NaN]

\* The page before the run: nothing sent, nothing to replay.
NotRun ==
  [stage |-> "idle", lastRunConfigPayload |-> configOf(NoControlNumbers, 0),
   original |-> NoControlNumbers, replay |-> NoControlNumbers]

\* runSimulation from the inputs to the payload of its request, or to the
\* return on a validation error.
runControls(inputs, at) ==
  LET controls == readRunInputs(inputs)
      configV2 == configOf(controls, at)
  IN  [rejected |-> validateConfigPayload(asValidated(configV2)).errors # << >>,
       configV2 |-> configV2,
       sent |-> payloadControls(configV2)]

\* runBtn click, and the run it starts ends with an artifact.
RunOriginal ==
  /\ ret.stage = "idle"
  /\ LET run == runControls(arg, now)
     IN  ret' = IF run.rejected THEN [ret EXCEPT !.stage = "rejected"]
                ELSE [ret EXCEPT !.stage = "ran", !.original = run.sent,
                                 !.lastRunConfigPayload = run.configV2]
  /\ UNCHANGED << rt, req, wk, nerr, nedit, app, runs, state, now, hist, arg >>

\* replayBtn click: applyConfigToState(lastRunConfigPayload), then
\* runSimulation() on the inputs that syncRunInputs() has written.
ReplayClick ==
  /\ ret.stage = "ran"
  /\ LET applied == applyConfigToState(ret.lastRunConfigPayload, now)
         run == runControls(syncRunInputs(applied), now)
     IN  ret' = IF run.rejected THEN [ret EXCEPT !.stage = "rejected"]
                ELSE [ret EXCEPT !.stage = "replayed", !.replay = run.sent]
  /\ UNCHANGED << rt, req, wk, nerr, nedit, app, runs, state, now, hist, arg >>

\* What Number() makes of the text in an input.
InputNumbers == {Num(n) : n \in {-1, 0, 1, maxSteps, maxSteps + 1}} \cup {NaN}
SeedNumbers == {Num(n) : n \in {-1, 0, 1, DefaultSeed}} \cup {NaN}

InitReplay ==
  /\ Start(Blank(Template(0, 0)))
  /\ arg \in [steps : InputNumbers, episodes : InputNumbers, seed : SeedNumbers]
  /\ ret = NotRun

NextReplay ==
  \/ RunOriginal
  \/ ReplayClick

\* A run and its replay, over the inputs above.
SpecReplay == InitReplay /\ [][NextReplay]_vars

\* ------------------------------------------------------------- properties
Ids == 1..Len(req)

\* The step delivers the oldest undelivered message of worker w.
Delivers(w) ==
  /\ wk[w].status = "live"
  /\ wk[w].outbox # << >>
  /\ Len(wk') >= Len(wk)
  /\ wk'[w].status = "live"
  /\ wk'[w].outbox = Tail(wk[w].outbox)

\* C2: whatever the interleaving of worker messages, worker error events,
\* terminate() calls and new requests, resolve or reject is called at most
\* once on a request; a delivered message settles the pending entry whose
\* identifier is its requestId and touches no other request; a message
\* whose requestId has no pending entry changes nothing in the dispatcher.
SettledAtMostOnce ==
  /\ [](\A id \in Ids : req[id].settles <= 1)
  /\ [][\A w \in 1..Len(wk) : Delivers(w) =>
          LET id == Head(wk[w].outbox).requestId
          IN  /\ \A j \in Ids \ {id} : req'[j] = req[j]
              /\ rt'.pending = rt.pending \ {id}
              /\ id \in rt.pending => req[id].st = "pending" /\ req'[id].settles = 1
              /\ id \notin rt.pending => rt' = rt /\ req' = req]_vars

\* C2 happens: one request has been resolved by its message while the answer
\* to another, already rejected and gone from the pending table, is still on
\* its way from a worker that is alive.
SettledAtMostOnceWitness ==
  /\ \E id \in Ids : req[id].st = "resolved"
  /\ \E w \in 1..Len(wk) :
       /\ wk[w].status = "live"
       /\ wk[w].outbox # << >>
       /\ Head(wk[w].outbox).requestId \notin rt.pending
       /\ req[Head(wk[w].outbox).requestId].st = "rejected"

IsCancelled(q) ==
  /\ q.st = "rejected"
  /\ q.val.err = createError(CANCELLED, "Run cancelled by user.")

\* C3: a call of terminate() rejects every request pending at that moment
\* with runtime.cancelled, so that its caller gets that error, and leaves
\* the pending table empty, the worker instance discarded and the ready
\* flag false; a request rejected that way stays rejected for good.
TerminateRejectsPending ==
  /\ [][ClientTerminate =>
          /\ \A id \in rt.pending :
                /\ IsCancelled(req'[id])
                /\ req'[id].out.done
                /\ ~req'[id].out.ok
                /\ req'[id].out.err.code = CANCELLED
          /\ rt'.pending = {}
          /\ rt'.worker = NullWorker
          /\ ~rt'.ready
          /\ rt.worker # NullWorker => wk'[rt.worker].status = "terminated"]_vars
  /\ [][\A id \in Ids : IsCancelled(req[id]) => req'[id] = req[id]]_vars

\* C3 happens: two requests were pending together and terminate() has
\* rejected both; the worker that was working on them is terminated.
TerminateRejectsPendingWitness ==
  /\ \E i, j \in Ids : i # j /\ IsCancelled(req[i]) /\ IsCancelled(req[j])
  /\ rt.pending = {}
  /\ rt.worker = NullWorker
  /\ \E w \in 1..Len(wk) : wk[w].status = "terminated"

Structured(err) ==
  /\ DOMAIN err = {"code", "message"}
  /\ err.code # ""

\* run() returns its result for request id in this step.
ReturnsResult(id) ==
  /\ req[id].type = "run"
  /\ ~req[id].out.done
  /\ req'[id].out.done
  /\ req'[id].out.ok

\* C4, amended: once terminate() has been called, run() returns a result
\* only after an init() called after that terminate() has returned its
\* value; a run() called in between that fails throws a structured error.
NoResultBeforeReinit ==
  /\ [][\A id \in 1..Len(req') :
          id \in Ids /\ ReturnsResult(id) /\ hist.terminated => hist.initOk]_vars
  /\ [](\A id \in Ids :
          req[id].type = "run" /\ req[id].out.done /\ ~req[id].out.ok
            => Structured(req[id].out.err))

\* C4 happens: after a terminate(), a run() called before any init() had
\* returned has failed, and a run() has returned a result after an init()
\* returned.
NoResultBeforeReinitWitness ==
  /\ hist.terminated
  /\ hist.initOk
  /\ \E id \in Ids : /\ req[id].type = "run"
                      /\ req[id].gap
                      /\ req[id].out.done
                      /\ ~req[id].out.ok
                      /\ req[id].out.err.code = FAILED
  /\ \E id \in Ids : /\ req[id].type = "run"
                      /\ req[id].out.done
                      /\ req[id].out.ok
                      /\ \E j \in 1..(id - 1) : IsCancelled(req[j])

\* C4 as stated, in its second clause: a run() called after terminate() and
\* before an init() called since has returned never returns a result.
ExecuteInBetweenFails ==
  \A id \in Ids :
    req[id].type = "run" /\ req[id].gap /\ req[id].out.done => ~req[id].out.ok

Runs == 1..Len(runs)
Ended(r) == runs[r].pc \in {"init", "end"}
ThrewCode(r, code) == runs[r].outcome = "error" /\ runs[r].error.code = code

\* C1: when the cancel button is pressed while a run waits for the answer
\* to scenario i, the run sends no scenario after i and has ended with the
\* structured error runtime.cancelled, without an artifact.
CancelStopsRun ==
  \A r \in Runs :
    runs[r].cancelAt > 0 =>
      /\ Len(runs[r].sent) = runs[r].cancelAt
      /\ Ended(r)
      /\ ThrewCode(r, CANCELLED)
      /\ runs[r].outcome # "done"
      /\ ~runs[r].artifact.made

\* C1 happens: a run of two scenarios was cancelled while its first was
\* with the worker.
CancelStopsRunWitness ==
  \E r \in Runs :
    /\ runs[r].cancelAt = 1
    /\ Len(runs[r].scenarios) >= 2
    /\ Len(runs[r].sent) = 1
    /\ ThrewCode(r, CANCELLED)

HasLimitError(artifact) ==
  \E k \in 1..Len(artifact.errors) : artifact.errors[k].code = LIMIT_EXCEEDED

EndsLimitExceeded(r) ==
  \/ ThrewCode(r, LIMIT_EXCEEDED)
  \/ runs[r].outcome = "done" /\ HasLimitError(runs[r].artifact)

\* The request run r had with the worker failed, and r ended with its error.
EndedByRequest(r) ==
  /\ runs[r].outcome = "error"
  /\ Len(runs[r].sent) = Len(runs[r].results) + 1
  /\ LET q == req[runs[r].sent[Len(runs[r].sent)].requestId]
     IN  q.out.done /\ ~q.out.ok /\ runs[r].error.code = q.out.err.code

\* C8, amended: a scenario is sent only while the time since the start of
\* the run is within maxRunMs; a run that ends later than that has ended
\* with runtime.limit_exceeded (thrown by the check at the head of the
\* loop, where it had as many results as scenarios sent, or listed in the
\* errors of its artifact) unless the request it was waiting for failed or
\* was cancelled; a run that has ended sends nothing more.
LimitEndsRun ==
  /\ [](\A r \in Runs :
          Ended(r) /\ runs[r].endMs - runs[r].runStartMs > maxRunMs =>
            /\ EndsLimitExceeded(r) \/ EndedByRequest(r)
            /\ ThrewCode(r, LIMIT_EXCEEDED) => Len(runs[r].sent) = Len(runs[r].results))
  /\ [][\A r \in Runs :
          /\ Len(runs'[r].sent) > Len(runs[r].sent) => now - runs[r].runStartMs <= maxRunMs
          /\ Ended(r) => runs'[r].sent = runs[r].sent]_vars

\* C8 happens: the budget ran out while the first of two scenarios was with
\* the worker, the check before the second threw, and the second was never
\* sent.
LimitEndsRunWitness ==
  \E r \in Runs :
    /\ ThrewCode(r, LIMIT_EXCEEDED)
    /\ Len(runs[r].scenarios) >= 2
    /\ Len(runs[r].results) = 1
    /\ Len(runs[r].sent) = 1

\* C8 as stated: every run that has ended later than maxRunMs after its
\* start has ended with runtime.limit_exceeded.
OverageEndsLimitExceeded ==
  \A r \in Runs :
    Ended(r) /\ runs[r].outcome \in {"done", "error"}
             /\ runs[r].endMs - runs[r].runStartMs > maxRunMs
      => EndsLimitExceeded(r)

TruncationNotice == "Scenario count capped."
HasNotice(artifact) ==
  \E k \in 1..Len(artifact.warnings) : artifact.warnings[k] = TruncationNotice

\* C9: a run that completes has sent, in the order of the enumeration,
\* exactly its first maxScenarios scenarios when there are more than
\* maxScenarios of them, and then its artifact carries the truncation
\* notice; otherwise it has sent them all and the notice is absent.
TruncatesToMax ==
  \A r \in Runs :
    runs[r].outcome = "done" =>
      LET N == Len(runs[r].allScenarios)
          n == IF N > maxScenarios THEN maxScenarios ELSE N
      IN  /\ Len(runs[r].sent) = n
          /\ \A k \in 1..n : /\ runs[r].sent[k].scenario = runs[r].allScenarios[k]
                              /\ runs[r].sent[k].i = k
          /\ HasNotice(runs[r].artifact) <=> N > maxScenarios

\* C9 happens: a run with more than maxScenarios scenarios has completed.
TruncatesToMaxWitness ==
  \E r \in Runs :
    /\ runs[r].outcome = "done"
    /\ Len(runs[r].allScenarios) > maxScenarios
    /\ Len(runs[r].sent) = maxScenarios

\* C10: of the requests a run has sent, all but the last have settled and
\* been handed back to the run; so at most one is pending.
OneOutstanding ==
  \A r \in Runs :
    /\ \A k \in 1..(Len(runs[r].sent) - 1) :
         /\ req[runs[r].sent[k].requestId].st # "pending"
         /\ req[runs[r].sent[k].requestId].out.done
    /\ Cardinality({id \in rt.pending : req[id].owner = Owner("run", r)}) <= 1

\* C10 happens: a run waits for the answer to its second scenario.
OneOutstandingWitness ==
  \E r \in Runs :
    /\ runs[r].pc = "run"
    /\ Len(runs[r].sent) = 2
    /\ runs[r].sent[2].requestId \in rt.pending

\* The payload that configuration `config` gives for `scenario`: its
\* controls, its layers and its parameters, with the scenario's options.
SnapshotPayload(config, scenario) ==
  [steps |-> config.controls.steps,
   layers |-> [l \in 1..Len(config.layers) |->
                 [c \in 1..Len(config.layers[l]) |->
                    [name |-> config.layers[l][c].name,
                     params |->
                       [value |-> config.layers[l][c].params.value,
                        mode |-> IF config.layers[l][c].opts = 0 THEN 0
                                 ELSE IF overrideOf(scenario, config.layers[l][c].name) # 0
                                   THEN overrideOf(scenario, config.layers[l][c].name)
                                 ELSE 1]]]]]

\* C5 as stated, for edits made once the first scenario has been sent: when
\* the first payload of a run is the one that the configuration taken at
\* its start gives, so is every later payload of the run, whatever is
\* edited meanwhile; and the artifact records that configuration.
ConfigFixedAtStart ==
  \A r \in Runs :
    /\ \A k \in 2..Len(runs[r].sent) :
         runs[r].sent[1].payload = SnapshotPayload(runs[r].configV2, runs[r].sent[1].scenario)
           => runs[r].sent[k].payload = SnapshotPayload(runs[r].configV2, runs[r].sent[k].scenario)
    /\ runs[r].artifact.made => runs[r].artifact.config = runs[r].configV2

RequestsOf(r) ==
  {id \in Ids : req[id].owner.r = r /\ req[id].owner.k \in {"run", "finally"}}

\* C6: an invocation of runSimulation whose configuration has a validation
\* error returns at once, has sent no request to the worker, neither a run
\* nor an init, and has made no artifact.
InvalidSendsNothing ==
  \A r \in Runs :
    Len(runs[r].validationErrors) > 0 =>
      /\ runs[r].pc = "end"
      /\ runs[r].outcome = "validation"
      /\ Len(runs[r].sent) = 0
      /\ RequestsOf(r) = {}
      /\ ~runs[r].artifact.made

\* C6 happens: Run was pressed on a model with an empty layer, while the
\* worker was ready to take requests.
InvalidSendsNothingWitness ==
  \E r \in Runs :
    /\ Len(runs[r].validationErrors) > 0
    /\ runs[r].validationErrors[1].code = LAYER_EMPTY
    /\ rt.ready

\* C7 as stated: after the latest invocation of runSimulation has returned
\* on validation errors, the validation panel shows those errors, the same
\* and in the same order.
ValidationErrorsShown ==
  Len(runs) > 0 /\ runs[Len(runs)].outcome = "validation"
    => app.validationErrors = runs[Len(runs)].validationErrors

\* C11: in every run the scenarios are sent in the order of the
\* enumeration, one result is collected per scenario answered, and the i-th
\* result carries the label of the i-th enumerated scenario and the payload
\* that run() returned for the request sent for that scenario.
ResultsInOrder ==
  \A r \in Runs :
    /\ Len(runs[r].results) <= Len(runs[r].sent)
    /\ Len(runs[r].sent) <= Len(runs[r].results) + 1
    /\ \A k \in 1..Len(runs[r].sent) :
         /\ runs[r].sent[k].i = k
         /\ runs[r].sent[k].scenario = runs[r].allScenarios[k]
         /\ req[runs[r].sent[k].requestId].owner = Owner("run", r)
         /\ req[runs[r].sent[k].requestId].payload = runs[r].sent[k].payload
    /\ \A k \in 1..Len(runs[r].results) :
         /\ runs[r].results[k].label = runs[r].allScenarios[k].label
         /\ runs[r].results[k].requestId = runs[r].sent[k].requestId
         /\ req[runs[r].sent[k].requestId].out.ok
         /\ runs[r].results[k].result = req[runs[r].sent[k].requestId].out.payload

\* C11 happens: a run has collected the results of two scenarios with
\* different labels.
ResultsInOrderWitness ==
  \E r \in Runs :
    /\ Len(runs[r].results) = 2
    /\ runs[r].results[1].label # runs[r].results[2].label
    /\ runs[r].outcome = "done"

\* C12: when run() fails for the request of scenario k of a run, the run has
\* ended with that structured error, which is runtime.failed unless the
\* failure came with a code of its own (runtime.cancelled from terminate(),
\* runtime.bad_result_shape from the shape check); scenario k is the last
\* one sent, and the run has made no artifact.
FailureAbortsRun ==
  \A r \in Runs :
    \A k \in 1..Len(runs[r].sent) :
      LET q == req[runs[r].sent[k].requestId]
      IN  q.out.done /\ ~q.out.ok =>
            /\ k = Len(runs[r].sent)
            /\ Ended(r)
            /\ runs[r].outcome = "error"
            /\ Structured(runs[r].error)
            /\ runs[r].error = q.out.err
            /\ runs[r].error.code \in {FAILED, CANCELLED, BAD_RESULT_SHAPE}
            /\ q.st = "rejected" /\ q.val.err.code = CANCELLED <=> runs[r].error.code = CANCELLED
            /\ q.st = "resolved" <=> runs[r].error.code = BAD_RESULT_SHAPE
            /\ ~runs[r].artifact.made
            /\ Len(runs[r].results) = k - 1

\* C12 happens: the first scenario of a run was answered, the backend
\* failed on the second, and the run ended with runtime.failed.
FailureAbortsRunWitness ==
  \E r \in Runs :
    /\ Len(runs[r].sent) = 2
    /\ Len(runs[r].results) = 1
    /\ ThrewCode(r, FAILED)
    /\ runs[r].error.message = "run-error"

\* C13: the step in which a run ends, whether done, failed or cancelled,
\* leaves isRunning and cancelRequested false; and when no run is under way
\* both are false, and the Run button is enabled whenever the runtime is
\* held to be ready, so that the next press of Run gets past the guards.
IdleAfterRun ==
  /\ [][\A r \in Runs :
          ~Ended(r) /\ runs'[r].pc \in {"init", "end"}
            => ~app'.isRunning /\ ~app'.cancelRequested]_vars
  /\ [](Len(runs) > 0 /\ (\A r \in Runs : Ended(r)) =>
          /\ ~app.isRunning
          /\ ~app.cancelRequested
          /\ app.cancelBtnDisabled
          /\ app.pyodideReady => ~app.runBtnDisabled)

\* C13 happens: a run has been cancelled, none is under way, and Run can be
\* pressed again.
IdleAfterRunWitness ==
  /\ Len(runs) >= 1
  /\ \A r \in Runs : Ended(r)
  /\ \E r \in Runs : ThrewCode(r, CANCELLED)
  /\ ~app.isRunning
  /\ ~app.runBtnDisabled
  /\ app.pyodideReady

AllSettled ==
  /\ \A id \in Ids : req[id].st # "pending" /\ req[id].out.done
  /\ \A r \in Runs : runs[r].pc \notin {"run", "init"}

InitFailsLoadFailed ==
  \A id \in Ids :
    /\ req[id].type = "init"
    /\ req[id].out.done
    /\ ~req[id].out.ok
    /\ req[id].st = "rejected"
    /\ req[id].val.err.message \in {"load-error", "init-error"}
    => req[id].out.err.code = LOAD_FAILED

\* Messages the worker puts in an error answer.
WorkerSaid ==
  {"load-error", "init-error", "run-error", "runtime-not-ready",
   "Unknown worker message type"}

\* The worker answered request id with a message of the given kind.
AnsweredRunOk(id) == req[id].st = "resolved" /\ req[id].val.type = "run_ok"
AnsweredOther(id) ==
  \/ req[id].st = "resolved" /\ req[id].val.type # "run_ok"
  \/ req[id].st = "rejected" /\ req[id].val.err.message \in WorkerSaid

\* An object with an episodes array whose every element has a per_step
\* array and an episode object.
WellShaped(p) ==
  /\ p.obj
  /\ p.arr
  /\ \A k \in 1..Len(p.eps) : p.eps[k].ps /\ p.eps[k].ep

\* C16: run() returns the worker's payload only when the answer has type
\* run_ok and the payload is an object with an episodes array whose every
\* element has a per_step array and an episode object; an answer of any
\* other type makes it throw runtime.failed, and a run_ok answer of any
\* other shape makes it throw runtime.bad_result_shape.
ExecuteChecksAnswer ==
  \A id \in Ids :
    req[id].type = "run" /\ req[id].out.done =>
      /\ req[id].out.ok =>
            /\ AnsweredRunOk(id)
            /\ WellShaped(req[id].val.payload)
            /\ req[id].out.payload = req[id].val.payload
      /\ AnsweredOther(id) =>
            ~req[id].out.ok /\ req[id].out.err.code = FAILED
      /\ AnsweredRunOk(id) /\ ~WellShaped(req[id].val.payload) =>
            ~req[id].out.ok /\ req[id].out.err.code = BAD_RESULT_SHAPE

\* C16 happens: one run() has returned a payload, one has thrown
\* runtime.failed on an error answer and one has thrown
\* runtime.bad_result_shape on a run_ok answer.
ExecuteChecksAnswerWitness ==
  /\ \E id \in Ids : req[id].type = "run" /\ req[id].out.done /\ req[id].out.ok
  /\ \E id \in Ids : /\ req[id].type = "run" /\ req[id].out.done
                      /\ AnsweredOther(id) /\ ~req[id].out.ok
                      /\ req[id].out.err.code = FAILED
  /\ \E id \in Ids : /\ req[id].type = "run" /\ req[id].out.done
                      /\ AnsweredRunOk(id)
                      /\ ~req[id].out.ok
                      /\ req[id].out.err.code = BAD_RESULT_SHAPE

\* C17 as stated: when an init() fails, the dispatcher is left without a
\* worker and not ready, so that the next request constructs a new worker.
FailedInitDiscardsWorker ==
  [][\A id \in 1..Len(req') :
       /\ id \in Ids
       /\ req[id].type = "init"
       /\ ~req[id].out.done
       /\ req'[id].out.done
       /\ ~req'[id].out.ok
       => rt'.worker = NullWorker /\ ~rt'.ready]_vars

\* The components whose custom parameter is a condition-kind category.
ConditionAxes(components) ==
  LET isCondition(c) == c.meta.type = "category" /\ c.meta.kind = "condition"
  IN  SelectSeq(components, isCondition)

\* C18: when no component of the model has a condition-kind categorical
\* parameter, rule-kind ones or none at all, buildScenarioList() returns
\* one scenario, labelled "Base", whose override map is empty.
BaseWithoutConditionAxis ==
  ret.called /\ ConditionAxes(ret.components) = << >> =>
    /\ Len(ret.list) = 1
    /\ ret.list[1].label = << "Base" >>
    /\ DOMAIN ret.list[1].overrides = {}

\* C18 happens: the list was built from a model whose categorical
\* parameters, two options each, are all of the rule kind.
BaseWithoutConditionAxisWitness ==
  /\ ret.called
  /\ ConditionAxes(ret.components) = << >>
  /\ \A k \in 1..Len(ret.components) :
       /\ ret.components[k].meta.type = "category"
       /\ ret.components[k].meta.kind = "rule"
       /\ Len(ret.components[k].meta.options) = 2
  /\ Len(ret.list) = 1

RECURSIVE OptionProduct(_)
\* o1 * o2 * ... * on for the option lists of the axes given.
OptionProduct(axes) ==
  IF axes = << >> THEN 1
  ELSE Len(Head(axes).meta.options) * OptionProduct(Tail(axes))

\* C19 as stated: buildScenarioList() returns as many scenarios as the
\* product of the option counts of the condition-kind parameters, no two
\* scenarios have the same override map, and every override map gives each
\* of those parameters one of its options and holds nothing else.
EnumeratesProduct ==
  ret.called =>
    LET axes == ConditionAxes(ret.components)
        keys == {overrideKey(axes[k].id, axes[k].key) : k \in 1..Len(axes)}
    IN  /\ Len(ret.list) = OptionProduct(axes)
        /\ \A i, j \in 1..Len(ret.list) :
             i # j => ret.list[i].overrides # ret.list[j].overrides
        /\ \A i \in 1..Len(ret.list) :
             /\ DOMAIN ret.list[i].overrides = keys
             /\ \A k \in 1..Len(axes) :
                  includes(axes[k].meta.options,
                           ret.list[i].overrides[overrideKey(axes[k].id, axes[k].key)])

HasCode(errors, code) == \E k \in 1..Len(errors) : errors[k].code = code

\* The steps and the episodes of a configuration object, as numbers.
StepsOf(config) ==
  Number(IF config.controls.object THEN config.controls.steps ELSE config.top.steps)
EpisodesOf(config) ==
  Number(IF config.controls.object THEN config.controls.episodes ELSE config.top.episodes)

\* C20 as stated: for every configuration object, whatever else it holds,
\* validateConfigPayload returns an error with code validation.steps_limit
\* when steps is greater than maxSteps, and an error with code
\* validation.episodes_invalid when episodes is less than 1 or is no finite
\* number.
LimitsAlwaysChecked ==
  ret.called /\ arg.object =>
    /\ greaterThan(StepsOf(arg), maxSteps)
         => HasCode(ret.errors, "validation.steps_limit")
    /\ lessThan(EpisodesOf(arg), 1) \/ ~isFinite(EpisodesOf(arg))
         => HasCode(ret.errors, "validation.episodes_invalid")

\* C21 as stated: validateConfigPayload never throws, whatever the
\* configuration and its streams hold, and a configuration that is no
\* object gets a list of exactly one error.
ValidateNeverThrows ==
  ret.called =>
    /\ ~ret.threw
    /\ ~arg.object => Len(ret.errors) = 1

HasError(errors, code, path) ==
  \E k \in 1..Len(errors) : errors[k].code = code /\ errors[k].path = path

\* The stream is an object of type Price whose params lack the key.
LacksParam(stream, key) ==
  /\ stream.object
  /\ stream.type = TypeValue("Price")
  /\ key \notin stream.params.keys

\* C22 as stated: the list validateConfigPayload returns for a
\* configuration object has an error for every violation present: steps,
\* episodes or seed out of range, every empty layer, and every required
\* parameter missing from a stream.
ReportsEveryViolation ==
  ret.called /\ arg.object =>
    /\ ~isFinite(StepsOf(arg)) \/ lessThan(StepsOf(arg), 1)
         => HasCode(ret.errors, "validation.steps_invalid")
    /\ greaterThan(StepsOf(arg), maxSteps)
         => HasCode(ret.errors, "validation.steps_limit")
    /\ ~isFinite(EpisodesOf(arg)) \/ lessThan(EpisodesOf(arg), 1)
         => HasCode(ret.errors, "validation.episodes_invalid")
    /\ greaterThan(EpisodesOf(arg), maxEpisodes)
         => HasCode(ret.errors, "validation.episodes_limit")
    /\ \A l \in 1..Len(arg.layers.items) :
         LET layer == arg.layers.items[l]
         IN  /\ ~layer.array \/ Len(layer.streams) = 0
                  => HasError(ret.errors, LAYER_EMPTY, l)
             /\ \A c \in 1..Len(layer.streams), key \in {"start", "drift"} :
                  LacksParam(layer.streams[c], key)
                    => \E k \in 1..Len(ret.errors) :
                         /\ ret.errors[k].code = "validation.param_missing"
                         /\ ret.errors[k].path = streamPath(l, c)
                         /\ ret.errors[k].message = key

\* C23 as stated: when validateConfigPayload returns a list for a
\* configuration object whose version tag is neither the current one nor
\* the prior one that migration knows, the list has at least one error.
UnknownVersionRejected ==
  /\ ret.called
  /\ ~ret.threw
  /\ arg.object
  /\ arg.version \notin {"PlaygroundConfigV2", "PlaygroundConfigV1"}
  => Len(ret.errors) >= 1

\* A document without its volatile field.
Lasting(doc) == [doc EXCEPT !.stamp = 0]

\* C24: for a document of the current or of the prior version, migrating
\* what a migration returned gives the same document again, and migrating
\* a document of the current version gives that document, the time of
\* writing apart.
MigrateIdempotent ==
  /\ ret.stage = 2 =>
       /\ ~ret.second.threw
       /\ Lasting(ret.second.doc) = Lasting(ret.first.doc)
  /\ ret.stage >= 1 /\ arg.version = "PlaygroundConfigV2" =>
       /\ ~ret.first.threw
       /\ Lasting(ret.first.doc) = Lasting(arg)

\* C24 happens: a document of the prior version has been migrated, and the
\* result migrated again at a later time.
MigrateIdempotentWitness ==
  /\ ret.stage = 2
  /\ arg.version = "PlaygroundConfigV1"
  /\ ret.second.doc.stamp # ret.first.doc.stamp

\* C25: what migration returns for a document of the prior version carries
\* the current version tag, and its controls.steps, controls.episodes and
\* controls.seed are the flat steps, episodes and seed of that document.
MigrateNestsControls ==
  ret.stage >= 1 /\ arg.version = "PlaygroundConfigV1" =>
    /\ ~ret.first.threw
    /\ ret.first.doc.version = "PlaygroundConfigV2"
    /\ ret.first.doc.controls.object
    /\ ret.first.doc.controls.steps = arg.top.steps
    /\ ret.first.doc.controls.episodes = arg.top.episodes
    /\ ret.first.doc.controls.seed = arg.top.seed

\* C25 happens: a document of the prior version whose steps, episodes and
\* seed differ from one another has been migrated.
MigrateNestsControlsWitness ==
  /\ ret.stage >= 1
  /\ arg.version = "PlaygroundConfigV1"
  /\ arg.top.steps # arg.top.episodes
  /\ ret.first.doc.controls.steps = arg.top.steps
  /\ ret.first.doc.controls.episodes = arg.top.episodes

\* The thrown value is an object with a string code and a string message.
Conforms(err) == err.object /\ err.code.string /\ err.message.string

\* C26 as stated: normalizeError returns the thrown value's own code,
\* message and hints when it is an object with a string code and a string
\* message, and the fallback code, message and hints otherwise; either
\* way the hints returned are an array and the details an object.
NormalizeKeepsOwnHints ==
  ret.called =>
    /\ Conforms(arg.err) =>
         /\ ret.error.code = arg.err.code.str
         /\ ret.error.message = arg.err.message.str
         /\ ret.error.hints = arg.err.hints
    /\ ~Conforms(arg.err) =>
         /\ ret.error.code = FAILED
         /\ ret.error.message = "failed"
         /\ ret.error.hints = arg.fallbackHints
    /\ ret.error.hints.kind = "array"
    /\ ret.error.details.kind = "object"

\* C26, amended: the hints returned are the thrown value's own, or the
\* fallback's, when those are an array, and the empty array when they are
\* not.
NormalizeKeepsOrWraps ==
  ret.called =>
    /\ Conforms(arg.err) =>
         /\ ret.error.code = arg.err.code.str
         /\ ret.error.message = arg.err.message.str
         /\ ret.error.hints =
              IF arg.err.hints.kind = "array" THEN arg.err.hints ELSE ArrayOf(<< >>)
    /\ ~Conforms(arg.err) =>
         /\ ret.error.code = FAILED
         /\ ret.error.message = "failed"
         /\ ret.error.hints =
              IF arg.fallbackHints.kind = "array" THEN arg.fallbackHints ELSE ArrayOf(<< >>)
    /\ ret.error.hints.kind = "array"
    /\ ret.error.details.kind = "object"

\* C26 happens: a structured error with hints of its own has been
\* normalised with other hints as fallback.
NormalizeKeepsOrWrapsWitness ==
  /\ ret.called
  /\ Conforms(arg.err)
  /\ arg.err.hints = ArrayOf(<< "fix it" >>)
  /\ arg.fallbackHints = ArrayOf(<< "retry" >>)
  /\ ret.error.hints = ArrayOf(<< "fix it" >>)

\* C27: every artifact a run has produced holds at least one episode: a
\* run whose scenarios were answered with results never yields an artifact
\* whose episodes are empty.
ArtifactHasEpisodes ==
  \A r \in 1..Len(runs) :
    runs[r].artifact.made /\ Len(runs[r].results) > 0
      => Len(runs[r].artifact.episodes) > 0

NoSharedName ==
  \A i, j \in 1..Len(flat(state.layers)) :
    i # j => flat(state.layers)[i] # flat(state.layers)[j]

\* C30: after normalizeCategoryMeta the value is one of the options
\* whenever there are options, and the map has exactly one entry per
\* option: the value the entry's own map gave for that option, or the
\* option's ordinal index when it gave none.
OneEntryPerOption ==
  ret.called =>
    LET meta == ret.meta
        supplied == IF arg.info.map.object THEN arg.info.map.entries ELSE << >>
    IN  /\ meta.options # << >> => includes(meta.options, meta.value)
        /\ Cardinality(DOMAIN meta.map.entries) = Len(meta.options)
        /\ \A k \in 1..Len(meta.options) :
             /\ meta.options[k] \in DOMAIN meta.map.entries
             /\ meta.map.entries[meta.options[k]] =
                  IF meta.options[k] \in DOMAIN supplied
                    THEN supplied[meta.options[k]]
                    ELSE NumberValue(Num(k - 1))

\* C31: the replay of the last run sends the worker the steps, episodes
\* and seed that the run itself sent, whatever controls validation let
\* through.
ReplaySendsSameControls ==
  ret.stage = "replayed" => ret.replay = ret.original

\* Invocation r of runSimulation has ended as cancelled.
EndedCancelled(rs, r) ==
  /\ rs[r].pc \in {"init", "end"}
  /\ rs[r].outcome = "error"
  /\ rs[r].error.code = CANCELLED

\* C32: the step in which a run ends as cancelled sends, on that run's
\* behalf and with no click in between, an init request to a worker
\* constructed in that step; and the step in which such a request comes
\* back with init_ok leaves the dispatcher ready.
CancelRestartsRuntime ==
  [][/\ \A r \in 1..Len(runs) :
          ~EndedCancelled(runs, r) /\ EndedCancelled(runs', r)
            => \E id \in 1..Len(req') :
                 /\ id > Len(req)
                 /\ req'[id].type = "init"
                 /\ req'[id].owner = Owner("finally", r)
                 /\ rt'.worker > Len(wk)
                 /\ \E k \in 1..Len(wk'[rt'.worker].inbox) :
                      wk'[rt'.worker].inbox[k].requestId = id
     /\ \A id \in 1..Len(req) :
          /\ req[id].owner.k = "finally"
          /\ EndedCancelled(runs, req[id].owner.r)
          /\ ~req[id].out.done
          /\ req'[id].out.done
          /\ req'[id].out.ok
          => rt'.ready]_vars

\* C32 happens: a run has ended as cancelled, the init request of its
\* finally block has come back well, and the dispatcher is ready.
CancelRestartsRuntimeWitness ==
  \E id \in 1..Len(req) :
    /\ req[id].owner.k = "finally"
    /\ EndedCancelled(runs, req[id].owner.r)
    /\ req[id].out.done
    /\ req[id].out.ok
    /\ rt.ready
    /\ app.pyodideReady

\* The messages that a step has put into the inbox of worker w.
Posted(w) ==
  LET before == IF w <= Len(wk) THEN Len(wk[w].inbox) ELSE 0
  IN  {wk'[w].inbox[k].requestId : k \in (before + 1)..Len(wk'[w].inbox)}

\* C33: the request counter never goes down, whatever terminate() and
\* the construction of a new worker do, and every request a step posts
\* carries an identifier above every identifier issued before the step
\* and at most the counter after it: no identifier is issued twice.
IdsNeverReused ==
  [][/\ rt'.requestSeq >= rt.requestSeq
     /\ \A w \in 1..Len(wk') :
          \A id \in Posted(w) : id > rt.requestSeq /\ id <= rt'.requestSeq
     /\ Cardinality(UNION {Posted(w) : w \in 1..Len(wk')})
          = rt'.requestSeq - rt.requestSeq]_vars

\* C33 happens: the dispatcher has terminated a worker, and a request
\* made since waits in the inbox of the worker constructed after it.
IdsNeverReusedWitness ==
  /\ hist.terminated
  /\ rt.worker > 1
  /\ wk[1].status # "live"
  /\ \E k \in 1..Len(wk[rt.worker].inbox) :
       /\ wk[rt.worker].inbox[k].requestId = rt.requestSeq
       /\ rt.requestSeq > 1

\* The parameters that the configuration `config` and the scenario give
\* the component at place c of layer l: the override's ordinal for the
\* categorical parameter of a component on an axis of the scenario, the
\* encoded values of the configuration for everything else.
ExpectedParams(config, scenario, l, c) ==
  LET base == config.layers[l][c]
  IN  [value |-> base.params.value,
       mode |-> IF overrideOf(scenario, base.name) # 0
                  THEN overrideOf(scenario, base.name)
                  ELSE base.params.mode]

\* C34: in every payload a run has sent, each component of the run's
\* configuration is there under its name, the categorical parameter of a
\* component on a condition axis has the value that stands for the label
\* the scenario chose, and every other parameter has the encoded value of
\* the configuration taken at the start of the run.
OverridesReachPayload ==
  \A r \in Runs :
    \A k \in 1..Len(runs[r].sent) :
      LET sent == runs[r].sent[k]
          config == runs[r].configV2
      IN  /\ Len(sent.payload.layers) = Len(config.layers)
          /\ \A l \in 1..Len(config.layers) :
               /\ Len(sent.payload.layers[l]) = Len(config.layers[l])
               /\ \A c \in 1..Len(config.layers[l]) :
                    /\ sent.payload.layers[l][c].name = config.layers[l][c].name
                    /\ sent.payload.layers[l][c].params
                         = ExpectedParams(config, sent.scenario, l, c)

\* Invocation r of runSimulation has passed validation and has not yet
\* entered its finally block.
Active(r) == runs[r].pc \in {"hash", "run"}

\* C35: at most one invocation of runSimulation is active at a time, and
\* an invocation made while another is active has sent nothing to the
\* worker.
AtMostOneActive ==
  \A r1, r2 \in Runs :
    r1 < r2 /\ Active(r1) => ~Active(r2) /\ Len(runs[r2].sent) = 0

\* C36: a run request of runSimulation is handed to the dispatcher only
\* while the dispatcher is ready; none is sent between a terminate() and
\* the end of the init() that follows it.
RunSentWhileReady ==
  [][\A id \in (Len(req) + 1)..Len(req') :
       req'[id].type = "run" /\ req'[id].owner.k = "run"
         => rt'.ready /\ ~req'[id].gap]_vars

\* Invocation r of runSimulation has come to its end in the catch block
\* (failed, cancelled, over a limit) or on the return for validation errors.
EndedWithoutResult(rs, r) ==
  /\ r <= Len(rs)
  /\ rs[r].outcome \in {"error", "validation"}

Discarded(w) == wk[w].status = "live" /\ w # rt.worker

\* C38: a message or an error event of a worker the dispatcher has let go
\* of leaves the dispatcher as it was: no request is settled or taken out
\* of the pending table, and the current worker and the ready flag stay.
StaleEventsIgnored ==
  [][\A w \in 1..Len(wk) :
       /\ Discarded(w)
       /\ \/ /\ wk[w].outbox # << >>
             /\ wk'[w].outbox = Tail(wk[w].outbox)
          \/ /\ nerr' = nerr + 1
             /\ hist'.erred = w
       => rt' = rt /\ req' = req]_vars

\* A step in which the page terminates a worker: the cancel handler past
\* its guard.
Terminates ==
  \E w \in 1..Len(wk) : wk[w].status = "live" /\ wk'[w].status = "terminated"

\* C39: the cancel handler terminates the worker only while an invocation
\* of runSimulation is active; an invocation ends as cancelled only in a
\* step of the cancel handler taken while it was active; and no step
\* leaves cancelRequested set.
CancelOnlyActiveRun ==
  [][/\ Terminates => app.isRunning /\ \E r \in Runs : Active(r)
     /\ \A r \in 1..Len(runs') :
          EndedCancelled(runs', r) /\ ~(r <= Len(runs) /\ EndedCancelled(runs, r))
            => r <= Len(runs) /\ Active(r) /\ Terminates
     /\ ~app'.cancelRequested]_vars

\* C39 happens: the first invocation has ended as cancelled, and one made
\* after the cancel, on the worker constructed by it, has stored its
\* artifact.
CancelOnlyActiveRunWitness ==
  /\ Len(runs) = 2
  /\ EndedCancelled(runs, 1)
  /\ runs[1].cancelAt > 0
  /\ runs[2].outcome = "done"
  /\ \E id \in 1..Len(req) :
       /\ req[id].owner = Owner("finally", 1)
       /\ runs[2].sent[1].requestId > id

\* C40: every id listed in a layer has an entry in state.components, and
\* every entry of state.components is listed in the layer its layerIndex
\* names.
LayersMatchComponents ==
  /\ \A l \in 1..Len(state.layers) :
       \A c \in 1..Len(state.layers[l]) : HasComponent(state, state.layers[l][c])
  /\ \A k \in 1..Len(state.components) :
       LET component == state.components[k]
       IN  /\ component.layerIndex \in 1..Len(state.layers)
           /\ \E c \in 1..Len(state.layers[component.layerIndex]) :
                state.layers[component.layerIndex][c] = component.id

====
